---------------------------- MODULE Spec2Model ----------------------------
(***************************************************************************)
(* A model of the sectorc bootstrap chain:                                 *)
(*   L  the hex loader            (stage0.c, second listing of part_011)   *)
(*   F  the Forth VM              (stage1/forth.s)                         *)
(*   E  the Forth extensions      (forth.fth, first listing of part_002)   *)
(*   C  the C-subset compiler     (stage3/cc.fth)                          *)
(* Each layer has its own specification (SpecLoader, SpecForth, ...); the  *)
(* variables of the other layers are then idle.                            *)
(***************************************************************************)
EXTENDS Integers, Sequences, FiniteSets, TLC

VARIABLES
    S,      \* loader: the whole of stdin, a sequence of bytes
    pos,    \* loader: number of bytes read(0, &c, 1) has consumed
    buf,    \* loader: bytes stored in the JIT region, code_buf[0 .. ptr-code_buf)
    lpc,    \* loader: position in main()
    hi,     \* loader: the local `hi`
    jit,    \* loader: protection of the JIT region, "none" | "W" | "X"
    flushed,\* loader: length handed to sys_icache_invalidate, -1 before the call
    status, \* loader: exit status of main(), -1 while running
    vm,     \* Forth: the VM (a record, see section F)
    vmD,    \* Forth: a second VM, for comparing two runs
    fprog,  \* Forth: the source text the environment has supplied
    cc,     \* compiler: the runs of cc.fth, a sequence of records (section C)
    run,    \* compiler: one activation of an emitted function (section X)
    cprog   \* compiler: the C source text(s) the environment has supplied

lvars == <<S, pos, buf, lpc, hi, jit, flushed, status>>
fvars == <<vm, vmD, fprog>>
cvars == <<cc, run, cprog>>

vars == <<lvars, fvars, cvars>>

\* what the loader's steps leave alone
notLoader == <<fvars, cvars>>

\* the loader's variables while another layer is being checked
LoaderIdle ==
    /\ S = <<>> /\ pos = 0 /\ buf = <<>> /\ lpc = "off" /\ hi = 0
    /\ jit = "none" /\ flushed = -1 /\ status = -1

-----------------------------------------------------------------------------
(* Bounds of the model *)

\* longest loader input that is enumerated
MaxInputLen == 4

\* capacity of the JIT region in bytes; CODE_SIZE (0x4000) in the source,
\* scaled down so that the overflow branch is reachable
CodeCap == 1

-----------------------------------------------------------------------------
(* General helpers *)

Range(s) == { s[i] : i \in 1..Len(s) }

\* all sequences over A of length at most n
SeqsUpTo(A, n) == UNION { [1..k -> A] : k \in 0..n }

-----------------------------------------------------------------------------
(***************************************************************************)
(* L. The hex loader                                                       *)
(***************************************************************************)

\* bytes the enumerated inputs are made of: '1' 'B' 'b' ' ' '\n' '#' '`'
LoaderBytes == {49, 66, 98, 32, 10, 35, 96}

EOF == -1

\* value of the variables of a layer that a specification does not run
NoVM      == [pc |-> "off"]
NoProgram == [kind |-> "none"]
NoCC      == <<>>
NoRun     == [at |-> "off"]

\* hex_to_nibble(c): nibble value, or -1
hex_to_nibble_noAF(c) ==
    IF c >= 48 /\ c <= 57 THEN c - 48
    ELSE IF c >= 65 /\ c <= 70 THEN c - 65
    ELSE IF c >= 97 /\ c <= 102 THEN c - 97 + 10
    ELSE -1

hex_to_nibble(c) ==
    IF c >= 48 /\ c <= 57 THEN c - 48
    ELSE IF c >= 65 /\ c <= 70 THEN c - 65 + 10
    ELSE IF c >= 97 /\ c <= 102 THEN c - 97 + 10
    ELSE -1

\* read_byte(): the next byte of stdin, or -1; consumes one byte unless at EOF
read_byte == IF pos < Len(S) THEN S[pos + 1] ELSE EOF
read_pos  == IF pos < Len(S) THEN pos + 1 ELSE pos

IsLoaderWs(c) == c = 32 \/ c = 9 \/ c = 10 \/ c = 13

LInit ==
    /\ S \in SeqsUpTo(LoaderBytes, MaxInputLen)
    /\ pos = 0
    /\ buf = <<>>
    /\ lpc = "start"
    /\ hi = 0
    /\ jit = "none"
    /\ flushed = -1
    /\ status = -1
    /\ vm = NoVM /\ vmD = NoVM /\ fprog = NoProgram
    /\ cc = NoCC /\ run = NoRun /\ cprog = NoProgram

\* mmap(... MAP_JIT ...) succeeds; ptr = code_buf; pthread_jit_write_protect_np(0)
MmapOk ==
    /\ lpc = "start"
    /\ lpc' = "loop"
    /\ jit' = "W"
    /\ UNCHANGED <<S, pos, buf, hi, flushed, status>>
    /\ UNCHANGED notLoader

\* mmap returns MAP_FAILED: "code mmap failed", return 1
MmapFail ==
    /\ lpc = "start"
    /\ lpc' = "exit"
    /\ status' = 1
    /\ UNCHANGED <<S, pos, buf, hi, jit, flushed>>
    /\ UNCHANGED notLoader

\* head of the while loop: read one byte and classify it
ReadLoop ==
    /\ lpc = "loop"
    /\ pos' = read_pos
    /\ LET c == read_byte IN
        /\ lpc' = IF c = EOF THEN "final"
                  ELSE IF IsLoaderWs(c) THEN "loop"
                  ELSE IF c = 59 \/ c = 35 THEN "skip"
                  ELSE IF c = 96 THEN "final"
                  ELSE IF hex_to_nibble(c) < 0 THEN "loop"
                  ELSE "second"
        /\ hi' = IF c # EOF /\ ~IsLoaderWs(c) /\ c # 59 /\ c # 35 /\ c # 96
                 THEN hex_to_nibble(c) ELSE hi
    /\ UNCHANGED <<S, buf, jit, flushed, status>>
    /\ UNCHANGED notLoader

\* skip_line(): one iteration of its loop
SkipLine ==
    /\ lpc = "skip"
    /\ pos' = read_pos
    /\ lpc' = IF read_byte = EOF \/ read_byte = 10 THEN "loop" ELSE "skip"
    /\ UNCHANGED <<S, buf, hi, jit, flushed, status>>
    /\ UNCHANGED notLoader

\* ReadSecond that gives up when stdin ends after the first digit of a pair
ReadSecond_EofExits ==
    /\ lpc = "second"
    /\ pos' = read_pos
    /\ LET c  == read_byte
           lo == hex_to_nibble(c)
       IN  IF c = EOF \/ Len(buf) >= CodeCap THEN
               /\ lpc' = "exit"
               /\ status' = 1
               /\ UNCHANGED buf
           ELSE IF lo < 0 THEN
               /\ lpc' = "loop"
               /\ UNCHANGED <<buf, status>>
           ELSE
               /\ buf' = Append(buf, (hi * 16 + lo) % 256)
               /\ lpc' = "loop"
               /\ UNCHANGED status
    /\ UNCHANGED <<S, hi, jit, flushed>>
    /\ UNCHANGED notLoader

\* second digit of a pair, the overflow check and the store
ReadSecond ==
    /\ lpc = "second"
    /\ pos' = read_pos
    /\ LET c  == read_byte
           lo == hex_to_nibble(c)
       IN  IF c = EOF THEN
               /\ lpc' = "final"
               /\ UNCHANGED <<buf, status>>
           ELSE IF lo < 0 THEN
               /\ lpc' = "loop"
               /\ UNCHANGED <<buf, status>>
           ELSE IF Len(buf) >= CodeCap THEN
               /\ lpc' = "exit"
               /\ status' = 1
               /\ UNCHANGED buf
           ELSE
               /\ buf' = Append(buf, (hi * 16 + lo) % 256)
               /\ lpc' = "loop"
               /\ UNCHANGED status
    /\ UNCHANGED <<S, hi, jit, flushed>>
    /\ UNCHANGED notLoader

\* pthread_jit_write_protect_np(1)
Seal ==
    /\ lpc = "final"
    /\ jit' = "X"
    /\ lpc' = "sealed"
    /\ UNCHANGED <<S, pos, buf, hi, flushed, status>>
    /\ UNCHANGED notLoader

\* sys_icache_invalidate(code_buf, ptr - code_buf)
Flush ==
    /\ lpc = "sealed"
    /\ flushed' = Len(buf)
    /\ lpc' = "flushed"
    /\ UNCHANGED <<S, pos, buf, hi, jit, status>>
    /\ UNCHANGED notLoader

\* code(0): control enters the region
Execute ==
    /\ lpc = "flushed"
    /\ lpc' = "exec"
    /\ UNCHANGED <<S, pos, buf, hi, jit, flushed, status>>
    /\ UNCHANGED notLoader

LNext == MmapOk \/ MmapFail \/ ReadLoop \/ SkipLine \/ ReadSecond
            \/ Seal \/ Flush \/ Execute

SpecLoader == LInit /\ [][LNext]_vars

\* main() is one thread that runs until it returns or enters the region:
\* a step that is possible is taken
SpecLoaderLive == SpecLoader /\ WF_vars(LNext)

-----------------------------------------------------------------------------
(***************************************************************************)
(* The specification's functions on loader input.  They are written from   *)
(* the specification's wording and share nothing with the loader's code.   *)
(***************************************************************************)

HexLower == <<48, 49, 50, 51, 52, 53, 54, 55, 56, 57, 97, 98, 99, 100, 101, 102>>
HexUpper == <<48, 49, 50, 51, 52, 53, 54, 55, 56, 57, 65, 66, 67, 68, 69, 70>>

IsHexDigit(c) == \E i \in 1..16 : HexLower[i] = c \/ HexUpper[i] = c
HexValue(c)   == (CHOOSE i \in 1..16 : HexLower[i] = c \/ HexUpper[i] = c) - 1

HasSentinel(s) == \E i \in 1..Len(s) : s[i] = 96
FirstSentinel(s) == CHOOSE i \in 1..Len(s) :
                        s[i] = 96 /\ \A j \in 1..(i - 1) : s[j] # 96

\* the input up to, not including, the first sentinel byte
PrefixUntilSentinel(s) ==
    IF HasSentinel(s) THEN SubSeq(s, 1, FirstSentinel(s) - 1) ELSE s

\* delete line comments (from ';' or '#' through the next newline) and whitespace
RECURSIVE StripFrom(_, _, _)
StripFrom(s, i, inComment) ==
    IF i > Len(s) THEN <<>>
    ELSE IF inComment THEN StripFrom(s, i + 1, s[i] # 10)
    ELSE IF s[i] = 59 \/ s[i] = 35 THEN StripFrom(s, i + 1, TRUE)
    ELSE IF s[i] \in {32, 9, 10, 13} THEN StripFrom(s, i + 1, FALSE)
    ELSE <<s[i]>> \o StripFrom(s, i + 1, FALSE)

StripCommentsAndWs(s) == StripFrom(s, 1, FALSE)

\* decode the hex digits pairwise, in order; an unpaired last digit is dropped
Unhex(s) ==
    LET d == SelectSeq(s, IsHexDigit)
    IN  [k \in 1..(Len(d) \div 2) |->
            HexValue(d[2 * k - 1]) * 16 + HexValue(d[2 * k])]

\* A well-formed hex stream: outside comments, the two digits of a pair are
\* adjacent bytes, and no sentinel byte lies inside a comment.
RECURSIVE WellFormedFrom(_, _, _)
WellFormedFrom(s, i, inComment) ==
    IF i > Len(s) THEN TRUE
    ELSE IF inComment THEN s[i] # 96 /\ WellFormedFrom(s, i + 1, s[i] # 10)
    ELSE IF s[i] = 96 THEN TRUE
    ELSE IF s[i] = 59 \/ s[i] = 35 THEN WellFormedFrom(s, i + 1, TRUE)
    ELSE IF ~IsHexDigit(s[i]) THEN WellFormedFrom(s, i + 1, FALSE)
    ELSE IF i = Len(s) THEN TRUE
    ELSE IsHexDigit(s[i + 1]) /\ WellFormedFrom(s, i + 2, FALSE)

WellFormed(s) == WellFormedFrom(s, 1, FALSE)

\* the loader has left its read loop through the sentinel or EOF
DoneReading == lpc \in {"final", "sealed", "flushed", "exec"}

-----------------------------------------------------------------------------
(* Claims on the loader *)

C2_SentinelEndsHexMode ==
    (lpc = "exec" /\ HasSentinel(S) /\ 35 \notin Range(S) /\ 59 \notin Range(S))
        => pos = FirstSentinel(S)

-----------------------------------------------------------------------------
(***************************************************************************)
(* F. The Forth VM of stage1/forth.s                                       *)
(*                                                                         *)
(* A VM is a record, so that two runs can be compared in one state:        *)
(*   inp     unread bytes of stdin          eof   stdin is closed after inp*)
(*   pc      "code" (about to branch to the code of W), "quit" (at         *)
(*           quit_loop), "halt" (after SYS_exit), "fault", "range"         *)
(*   ip, w   x19, x20            rsp   x21         here  x22               *)
(*   latest  x23                 ps    the parameter stack, top last       *)
(*   mem     the written cells of the data region, by absolute address     *)
(*   names   the name fields of the headers built by `:`, by header address*)
(*   out     bytes written to stdout        err   bytes written to stderr  *)
(*   exit    exit status, -1 while running                                 *)
(* "fault" stands for every outcome of an access outside mapped memory, a  *)
(* parameter-stack underflow or a branch to something that is not code;    *)
(* "range" marks a value or a byte access the model does not represent.    *)
(* Both are absorbing.  Cells are mathematical integers; the programs      *)
(* that are run keep every value far from 2^63.                            *)
(***************************************************************************)

\* load addresses of the code image and of the data region (x28, x25)
Lbase    == 1048576
DataBase == 2097152

F_IMMED     == 128
F_LENMASK   == 31
OFF_STATE   == 0
OFF_HERE    == 8
OFF_BASE    == 16
OFF_LATEST  == 24
OFF_RSTACK  == 352
\* end of the return stack = start of data_space (0x160 + 8192)
OFF_DSPACE  == 8544
\* start of the parameter stack area, and the size of the data region
OFF_PSTACK  == 57344
DATA_SIZE   == 65536

\* the built-in dictionary in link order, name_DROP first, name_QUIT last
Builtins == <<
    [prim |-> "DROP", name |-> <<68, 82, 79, 80>>, immed |-> FALSE],
    [prim |-> "DUP", name |-> <<68, 85, 80>>, immed |-> FALSE],
    [prim |-> "SWAP", name |-> <<83, 87, 65, 80>>, immed |-> FALSE],
    [prim |-> "OVER", name |-> <<79, 86, 69, 82>>, immed |-> FALSE],
    [prim |-> "+", name |-> <<43>>, immed |-> FALSE],
    [prim |-> "-", name |-> <<45>>, immed |-> FALSE],
    [prim |-> "*", name |-> <<42>>, immed |-> FALSE],
    [prim |-> "=", name |-> <<61>>, immed |-> FALSE],
    [prim |-> "AND", name |-> <<65, 78, 68>>, immed |-> FALSE],
    [prim |-> "OR", name |-> <<79, 82>>, immed |-> FALSE],
    [prim |-> "XOR", name |-> <<88, 79, 82>>, immed |-> FALSE],
    [prim |-> "LSHIFT", name |-> <<76, 83, 72, 73, 70, 84>>, immed |-> FALSE],
    [prim |-> "RSHIFT", name |-> <<82, 83, 72, 73, 70, 84>>, immed |-> FALSE],
    [prim |-> "@", name |-> <<64>>, immed |-> FALSE],
    [prim |-> "C@", name |-> <<67, 64>>, immed |-> FALSE],
    [prim |-> "!", name |-> <<33>>, immed |-> FALSE],
    [prim |-> "C!", name |-> <<67, 33>>, immed |-> FALSE],
    [prim |-> ">R", name |-> <<62, 82>>, immed |-> FALSE],
    [prim |-> "R@", name |-> <<82, 64>>, immed |-> FALSE],
    [prim |-> "R>", name |-> <<82, 62>>, immed |-> FALSE],
    [prim |-> "EMIT", name |-> <<69, 77, 73, 84>>, immed |-> FALSE],
    [prim |-> "TYPE", name |-> <<84, 89, 80, 69>>, immed |-> FALSE],
    [prim |-> "KEY", name |-> <<75, 69, 89>>, immed |-> FALSE],
    [prim |-> "LIT", name |-> <<76, 73, 84>>, immed |-> FALSE],
    [prim |-> "LITERAL", name |-> <<76, 73, 84, 69, 82, 65, 76>>, immed |-> TRUE],
    [prim |-> "EXIT", name |-> <<69, 88, 73, 84>>, immed |-> FALSE],
    [prim |-> "BRANCH", name |-> <<66, 82, 65, 78, 67, 72>>, immed |-> FALSE],
    [prim |-> "0BRANCH", name |-> <<48, 66, 82, 65, 78, 67, 72>>, immed |-> FALSE],
    [prim |-> "HERE", name |-> <<72, 69, 82, 69>>, immed |-> FALSE],
    [prim |-> ",", name |-> <<44>>, immed |-> FALSE],
    [prim |-> "ALLOT", name |-> <<65, 76, 76, 79, 84>>, immed |-> FALSE],
    [prim |-> "STATE", name |-> <<83, 84, 65, 84, 69>>, immed |-> FALSE],
    [prim |-> "LATEST", name |-> <<76, 65, 84, 69, 83, 84>>, immed |-> FALSE],
    [prim |-> "IMMEDIATE", name |-> <<73, 77, 77, 69, 68, 73, 65, 84, 69>>, immed |-> FALSE],
    [prim |-> "[", name |-> <<91>>, immed |-> TRUE],
    [prim |-> "]", name |-> <<93>>, immed |-> FALSE],
    [prim |-> ":", name |-> <<58>>, immed |-> FALSE],
    [prim |-> ";", name |-> <<59>>, immed |-> TRUE],
    [prim |-> "BYE", name |-> <<66, 89, 69>>, immed |-> FALSE],
    [prim |-> "'", name |-> <<39>>, immed |-> FALSE],
    [prim |-> "EXECUTE", name |-> <<69, 88, 69, 67, 85, 84, 69>>, immed |-> FALSE],
    [prim |-> "\\", name |-> <<92>>, immed |-> TRUE],
    [prim |-> "(", name |-> <<40>>, immed |-> TRUE],
    [prim |-> "STOP", name |-> <<83, 84, 79, 80>>, immed |-> FALSE],
    [prim |-> "QUIT", name |-> <<81, 85, 73, 84>>, immed |-> FALSE] >>

NumBuiltins == Len(Builtins)
BuiltinIndex ==
    [p \in {Builtins[i].prim : i \in 1..NumBuiltins} |->
        CHOOSE i \in 1..NumBuiltins : Builtins[i].prim = p]
BuiltinIdx(p) == BuiltinIndex[p]

Align8(a) == ((a + 7) \div 8) * 8

\* Offsets from Lbase in the code image.  The assembler fixes the real ones;
\* the model keeps their order, their distinctness, and the rule
\* code field = align8(name + 8 + 1 + len) that forth.s itself computes.
\* Every built-in word has a block of 64 bytes: header, code field, code.
ColdStartOff == 24
DocolOff     == 32
NameOff(i)   == 64 * i
CodeOffs     == [i \in 1..NumBuiltins |->
                    Align8(NameOff(i) + 9 + Len(Builtins[i].name))]
CodeOff(i)   == CodeOffs[i]
DoOff(i)     == CodeOff(i) + 8
\* the built-in word in whose block the offset lies, 0 if in none
Slot(off)    == IF off >= 64 /\ off < 64 * (NumBuiltins + 1) THEN off \div 64 ELSE 0
XtStopOff    == NameOff(BuiltinIdx("STOP")) - 16
\* the return address of `bl parse_number` inside quit_loop
QuitRetOff   == NameOff(NumBuiltins + 1) + 16
Xt(p)        == CodeOff(BuiltinIdx(p))

\* a cell of the code image, read at offset off from Lbase; -1 where the
\* image holds instructions or name bytes
CodeCell(off) ==
    IF off = ColdStartOff THEN Xt("QUIT")
    ELSE IF off = XtStopOff THEN Xt("STOP")
    ELSE IF Slot(off) = 0 THEN -1
    ELSE IF off = NameOff(Slot(off))
        THEN (IF Slot(off) = 1 THEN 0 ELSE NameOff(Slot(off) - 1))
    ELSE IF off = CodeOff(Slot(off)) THEN DoOff(Slot(off))
    ELSE -1

InCode(a) == a >= Lbase /\ a < Lbase + QuitRetOff + 1024
InData(a) == a >= DataBase /\ a < DataBase + DATA_SIZE

(* Memory of a VM *)

Fault(v)      == [v EXCEPT !.pc = "fault"]
OutOfModel(v) == [v EXCEPT !.pc = "range"]
Running(v)    == v.pc \in {"code", "quit"}

\* the cells of a header that hold its length byte and name
NameCell(v, a) ==
    \E h \in DOMAIN v.names :
        a >= h + 8 /\ a < Align8(h + 9 + (v.names[h].len % (F_LENMASK + 1)))

\* "ok" if the 8-byte load at a is represented, else how it fails
FetchKind(v, a) ==
    IF a % 8 # 0 THEN "range"
    ELSE IF a \in DOMAIN v.mem THEN "ok"
    ELSE IF InData(a) THEN
        IF a < DataBase + OFF_RSTACK \/ a >= DataBase + OFF_PSTACK \/ NameCell(v, a)
        THEN "range" ELSE "ok"
    ELSE IF InCode(a) THEN (IF CodeCell(a - Lbase) = -1 THEN "range" ELSE "ok")
    ELSE "fault"

\* ldr from a: a written cell, a cell of the code image, or the zero of a
\* fresh anonymous mapping
Fetch(v, a) ==
    IF a \in DOMAIN v.mem THEN v.mem[a]
    ELSE IF InCode(a) THEN CodeCell(a - Lbase)
    ELSE 0

\* "ok" if the 8-byte store at a is represented; the code image is not writable
StoreKind(v, a) ==
    IF InCode(a) \/ ~InData(a) THEN "fault"
    ELSE IF a % 8 # 0 \/ NameCell(v, a) THEN "range"
    ELSE IF a < DataBase + OFF_RSTACK /\ a \notin DOMAIN v.mem THEN "range"
    ELSE IF a >= DataBase + OFF_PSTACK THEN "range"
    ELSE "ok"

WriteMem(m, a, x) == [b \in DOMAIN m \cup {a} |-> IF b = a THEN x ELSE m[b]]

\* str x, [a]
Store(v, a, x) ==
    IF ~Running(v) THEN v
    ELSE IF StoreKind(v, a) = "fault" THEN Fault(v)
    ELSE IF StoreKind(v, a) = "range" THEN OutOfModel(v)
    ELSE [v EXCEPT !.mem = WriteMem(@, a, x)]

StateOf(v) == Fetch(v, DataBase + OFF_STATE)

(* read_word, find_word, parse_number *)

RECURSIVE SkipBlank(_, _)
SkipBlank(s, i) == IF i <= Len(s) /\ s[i] <= 32 THEN SkipBlank(s, i + 1) ELSE i

RECURSIVE SkipWord(_, _)
SkipWord(s, i) == IF i <= Len(s) /\ s[i] > 32 THEN SkipWord(s, i + 1) ELSE i

\* read_word on the unread input s: skip bytes <= ' ', collect bytes > ' ',
\* consume the delimiter; word is empty when EOF comes first
read_word(s) ==
    LET a == SkipBlank(s, 1)
        b == SkipWord(s, a)
    IN  [word |-> SubSeq(s, a, b - 1), rest |-> SubSeq(s, b + 1, Len(s))]

\* orr w, w, #0x20
Fold(c) == IF (c \div 32) % 2 = 1 THEN c ELSE c + 32

IsBuiltinHeader(h) == Slot(h - Lbase) # 0 /\ h - Lbase = NameOff(Slot(h - Lbase))
BuiltinAt(h) == Builtins[Slot(h - Lbase)]
IsHeader(v, h) == IsBuiltinHeader(h) \/ h \in DOMAIN v.names

\* the byte at [h, #8] and the bytes after it
LenByte(v, h) ==
    IF IsBuiltinHeader(h)
    THEN Len(BuiltinAt(h).name) + (IF BuiltinAt(h).immed THEN F_IMMED ELSE 0)
    ELSE v.names[h].len
NameOf(v, h) == IF IsBuiltinHeader(h) THEN BuiltinAt(h).name ELSE v.names[h].chars

\* code field address of the header at h: align8(h + 8 + 1 + len)
CodeField(v, h) == Align8(h + 9 + (LenByte(v, h) % (F_LENMASK + 1)))

NameMatches(v, h, word) ==
    /\ LenByte(v, h) % (F_LENMASK + 1) = Len(word)
    /\ Len(NameOf(v, h)) >= Len(word)
    /\ \A k \in 1..Len(word) : Fold(NameOf(v, h)[k]) = Fold(word[k])

\* find_word: walk the links from LATEST; the header address, 0 if the word
\* is not found, -1 if a link leads to something that is not a header
RECURSIVE FindFrom(_, _, _)
FindFrom(v, h, word) ==
    IF h = 0 THEN 0
    ELSE IF ~IsHeader(v, h) THEN -1
    ELSE IF NameMatches(v, h, word) THEN h
    ELSE FindFrom(v, IF Fetch(v, h) = 0 THEN 0 ELSE Lbase + Fetch(v, h), word)

find_word(v, word) == FindFrom(v, v.latest, word)

\* value of one digit byte as parse_number computes it (a negative result is
\* a large unsigned number there, so it fails the test against BASE)
DigitOf(c) == IF c <= 57 THEN c - 48 ELSE Fold(c) - 87

RECURSIVE ParseDigits(_, _, _, _)
ParseDigits(word, i, acc, base) ==
    IF i > Len(word) THEN [ok |-> TRUE, val |-> acc]
    ELSE IF DigitOf(word[i]) < 0 \/ DigitOf(word[i]) >= base
         THEN [ok |-> FALSE, val |-> 0]
    ELSE ParseDigits(word, i + 1, acc * base + DigitOf(word[i]), base)

\* parse_number: optional '-', then digits in BASE
parse_number(v, word) ==
    LET base == Fetch(v, DataBase + OFF_BASE)
        neg  == Len(word) > 0 /\ word[1] = 45
        r    == ParseDigits(word, IF neg THEN 2 ELSE 1, 0, base)
    IN  IF Len(word) = 0 \/ (neg /\ Len(word) = 1) THEN [ok |-> FALSE, val |-> 0]
        ELSE IF r.ok /\ neg THEN [ok |-> TRUE, val |-> 0 - r.val]
        ELSE r

(* The inner interpreter and the primitives *)

BadFetch(v, a) == IF FetchKind(v, a) = "fault" THEN Fault(v) ELSE OutOfModel(v)

\* the NEXT macro: W = Lbase + [IP], IP += 8, branch to the code of W
NEXT(v) ==
    IF v.pc # "code" THEN v
    ELSE IF FetchKind(v, v.ip) # "ok" THEN BadFetch(v, v.ip)
    ELSE [v EXCEPT !.w = Lbase + Fetch(v, v.ip), !.ip = v.ip + 8]

Depth(v)   == Len(v.ps)
Top(v)     == v.ps[Len(v.ps)]
Sec(v)     == v.ps[Len(v.ps) - 1]
Pop(v, n)  == [v EXCEPT !.ps = SubSeq(@, 1, Len(@) - n)]
Push(v, x) == [v EXCEPT !.ps = Append(@, x)]

\* DOCOL with the faulty thread start IP = W + 16
DOCOL_SkipFirst(v) ==
    NEXT([Store(v, v.rsp - 8, v.ip) EXCEPT !.rsp = v.rsp - 8, !.ip = v.w + 16])

\* DOCOL: PUSHRSP IP; IP = W + 8
DOCOL(v) ==
    NEXT([Store(v, v.rsp - 8, v.ip) EXCEPT !.rsp = v.rsp - 8, !.ip = v.w + 8])

\* DROP DUP SWAP OVER
StackPrim(v, p) ==
    IF Depth(v) < (IF p \in {"DROP", "DUP"} THEN 1 ELSE 2) THEN Fault(v)
    ELSE NEXT(CASE p = "DROP" -> Pop(v, 1)
                [] p = "DUP"  -> Push(v, Top(v))
                [] p = "SWAP" -> Push(Push(Pop(v, 2), Top(v)), Sec(v))
                [] p = "OVER" -> Push(v, Sec(v)))

RECURSIVE BitAndN(_, _)
BitAndN(a, b) ==
    IF a = 0 \/ b = 0 THEN 0
    ELSE (a % 2) * (b % 2) + 2 * BitAndN(a \div 2, b \div 2)

\* and, orr, eor on two's-complement integers (NOT x = -1 - x)
BitAnd(a, b) ==
    IF a >= 0 /\ b >= 0 THEN BitAndN(a, b)
    ELSE IF a >= 0 THEN a - BitAndN(a, -1 - b)
    ELSE IF b >= 0 THEN b - BitAndN(b, -1 - a)
    ELSE -1 - ((-1 - a) + (-1 - b) - BitAndN(-1 - a, -1 - b))
BitOr(a, b)  == -1 - BitAnd(-1 - a, -1 - b)
BitXor(a, b) == BitOr(a, b) - BitAnd(a, b)

\* lsl / lsr of a 64-bit register by the low six bits of n, for register
\* values within 32 bits; Unrep where the result is not a small integer
Unrep == 2 ^ 30
Lsl(x, n) ==
    LET sh == n % 64
    IN  IF sh <= 20 /\ x < 1024 /\ x > -1024 THEN x * (2 ^ sh) ELSE Unrep
Lsr(x, n) ==
    LET sh == n % 64
    IN  IF x >= 0 THEN (IF sh <= 30 THEN x \div (2 ^ sh) ELSE 0)
        ELSE IF sh >= 40 THEN (2 ^ (64 - sh)) - 1
        ELSE Unrep

\* + - * = AND OR XOR LSHIFT RSHIFT: x1 = second, x0 = top
ArithPrim(v, p) ==
    IF Depth(v) < 2 THEN Fault(v)
    ELSE LET x0 == Top(v)
             x1 == Sec(v)
             r  == CASE p = "+"      -> x1 + x0
                    [] p = "-"      -> x1 - x0
                    [] p = "*"      -> x1 * x0
                    [] p = "="      -> IF x1 = x0 THEN -1 ELSE 0
                    [] p = "AND"    -> BitAnd(x1, x0)
                    [] p = "OR"     -> BitOr(x1, x0)
                    [] p = "XOR"    -> BitXor(x1, x0)
                    [] p = "LSHIFT" -> Lsl(x1, x0)
                    [] p = "RSHIFT" -> Lsr(x1, x0)
         IN  IF r = Unrep THEN OutOfModel(v) ELSE NEXT(Push(Pop(v, 2), r))

\* byte k of the cell value x, little-endian, two's complement
ByteOf(x, k) ==
    IF k >= 4 THEN (IF x >= 0 THEN 0 ELSE 255)
    ELSE IF x >= 0 THEN (x \div 256 ^ k) % 256
    ELSE 255 - (((-1 - x) \div 256 ^ k) % 256)

\* @ and C@
FetchPrim(v, p) ==
    IF Depth(v) < 1 THEN Fault(v)
    ELSE LET a == Top(v)
             c == a - (a % 8)
         IN  IF p = "@" THEN
                 IF FetchKind(v, a) # "ok" THEN BadFetch(v, a)
                 ELSE NEXT(Push(Pop(v, 1), Fetch(v, a)))
             ELSE IF FetchKind(v, c) # "ok" THEN BadFetch(v, c)
             ELSE NEXT(Push(Pop(v, 1), ByteOf(Fetch(v, c), a % 8)))

\* StorePrim whose `!` takes the address off the stack and leaves the value
StorePrim_KeepsValue(v, p) ==
    IF Depth(v) < 2 THEN Fault(v)
    ELSE NEXT(Store(Pop(v, 1), Top(v), Sec(v)))

\* ! and C!: x0 = address (top), x1 = value (second)
StorePrim(v, p) ==
    IF Depth(v) < 2 THEN Fault(v)
    ELSE LET a   == Top(v)
             x   == Sec(v)
             c   == a - (a % 8)
             old == Fetch(v, c)
         IN  IF p = "!" THEN NEXT(Store(Pop(v, 2), a, x))
             ELSE IF FetchKind(v, c) # "ok" THEN BadFetch(v, c)
             ELSE IF a % 8 >= 4 THEN
                 (IF ByteOf(old, a % 8) = x % 256 THEN NEXT(Pop(v, 2))
                  ELSE OutOfModel(v))
             ELSE NEXT(Store(Pop(v, 2), c,
                        old + ((x % 256) - ByteOf(old, a % 8)) * 256 ^ (a % 8)))

\* >R R@ R>
RStackPrim(v, p) ==
    IF p = ">R" THEN
        IF Depth(v) < 1 THEN Fault(v)
        ELSE NEXT([Store(Pop(v, 1), v.rsp - 8, Top(v)) EXCEPT !.rsp = v.rsp - 8])
    ELSE IF FetchKind(v, v.rsp) # "ok" THEN BadFetch(v, v.rsp)
    ELSE IF p = "R@" THEN NEXT(Push(v, Fetch(v, v.rsp)))
    ELSE NEXT([Push(v, Fetch(v, v.rsp)) EXCEPT !.rsp = v.rsp + 8])

\* the rest of s after the first byte c; empty if c does not occur
RECURSIVE SkipPast(_, _)
SkipPast(s, c) ==
    IF s = <<>> THEN <<>> ELSE IF Head(s) = c THEN Tail(s) ELSE SkipPast(Tail(s), c)

\* EMIT TYPE KEY
IoPrim(v, p) ==
    IF p = "KEY" THEN
        IF v.inp = <<>> THEN NEXT(Push(v, -1))
        ELSE NEXT([Push(v, Head(v.inp)) EXCEPT !.inp = Tail(v.inp)])
    ELSE IF p = "EMIT" THEN
        IF Depth(v) < 1 THEN Fault(v)
        ELSE NEXT([Pop(v, 1) EXCEPT !.out = Append(@, Top(v) % 256)])
    ELSE IF Depth(v) < 2 THEN Fault(v)
    ELSE LET n == Top(v)
             a == Sec(v)
             cell(j) == (a + j) - ((a + j) % 8)
         IN  IF n <= 0 THEN NEXT(Pop(v, 2))
             ELSE IF n > 64 \/ \E j \in 0..(n - 1) : FetchKind(v, cell(j)) # "ok"
                 THEN OutOfModel(v)
             ELSE NEXT([Pop(v, 2) EXCEPT !.out =
                        @ \o [j \in 1..n |->
                                ByteOf(Fetch(v, cell(j - 1)), (a + j - 1) % 8)]])

\* LIT: push the cell at IP, skip it
do_LIT(v) ==
    IF FetchKind(v, v.ip) # "ok" THEN BadFetch(v, v.ip)
    ELSE NEXT([Push(v, Fetch(v, v.ip)) EXCEPT !.ip = v.ip + 8])

\* str x, [x22], #8 ... ; str (x22 - x25), [x25, #OFF_HERE]
SetHere(v, h) == Store([v EXCEPT !.here = h], DataBase + OFF_HERE, h - DataBase)

\* LITERAL: compile LIT and the popped value
do_LITERAL(v) ==
    IF Depth(v) < 1 THEN Fault(v)
    ELSE NEXT(SetHere(Store(Store(Pop(v, 1), v.here, Xt("LIT")),
                            v.here + 8, Top(v)), v.here + 16))

\* EXIT: POPRSP IP
do_EXIT(v) ==
    IF FetchKind(v, v.rsp) # "ok" THEN BadFetch(v, v.rsp)
    ELSE NEXT([v EXCEPT !.ip = Fetch(v, v.rsp), !.rsp = v.rsp + 8])

\* BRANCH with the offset taken relative to the cell after the offset cell
do_BRANCH_FromNextCell(v) ==
    IF FetchKind(v, v.ip) # "ok" THEN BadFetch(v, v.ip)
    ELSE NEXT([v EXCEPT !.ip = v.ip + 8 + Fetch(v, v.ip)])

\* BRANCH: IP += [IP], relative to the cell that holds the offset
do_BRANCH(v) ==
    IF FetchKind(v, v.ip) # "ok" THEN BadFetch(v, v.ip)
    ELSE NEXT([v EXCEPT !.ip = v.ip + Fetch(v, v.ip)])

\* 0BRANCH: pop; branch if zero, else skip the offset cell
do_0BRANCH(v) ==
    IF Depth(v) < 1 THEN Fault(v)
    ELSE IF Top(v) = 0 THEN do_BRANCH(Pop(v, 1))
    ELSE NEXT([Pop(v, 1) EXCEPT !.ip = v.ip + 8])

\* HERE , ALLOT STATE LATEST
DictPrim(v, p) ==
    IF p = "HERE" THEN NEXT(Push(v, v.here))
    ELSE IF p = "STATE" THEN NEXT(Push(v, DataBase + OFF_STATE))
    ELSE IF p = "LATEST" THEN NEXT(Push(v, DataBase + OFF_LATEST))
    ELSE IF Depth(v) < 1 THEN Fault(v)
    ELSE IF p = "," THEN NEXT(SetHere(Store(Pop(v, 1), v.here, Top(v)), v.here + 8))
    ELSE NEXT(SetHere(Pop(v, 1), v.here + Top(v)))

\* IMMEDIATE: set F_IMMED in the length byte of the header at LATEST
do_IMMEDIATE(v) ==
    IF v.latest \notin DOMAIN v.names THEN Fault(v)
    ELSE NEXT([v EXCEPT !.names[v.latest].len =
                IF (@ \div F_IMMED) % 2 = 1 THEN @ ELSE @ + F_IMMED])

\* [ and ]
StatePrim(v, p) ==
    NEXT(Store(v, DataBase + OFF_STATE, IF p = "[" THEN 0 ELSE 1))

\* `:` read a name, build the header (link, length byte, name, padding, the
\* DOCOL code field), make it LATEST, enter compile state
do_COLON(v) ==
    LET r  == read_word(v.inp)
        h  == v.here
        cf == Align8(h + 9 + Len(r.word))
        v1 == Store([v EXCEPT !.inp = r.rest], h, v.latest - Lbase)
        v2 == Store([v1 EXCEPT !.latest = h], DataBase + OFF_LATEST, h - Lbase)
        v3 == [v2 EXCEPT !.names =
                  WriteMem(@, h, [len |-> Len(r.word) % 256, chars |-> r.word])]
        v4 == SetHere(Store(v3, cf, DocolOff), cf + 8)
    IN  IF Len(r.word) > 64 THEN OutOfModel(v)
        ELSE NEXT(Store(v4, DataBase + OFF_STATE, 1))

\* `;` without the compiled EXIT
do_SEMICOLON_NoExit(v) ==
    NEXT(Store(v, DataBase + OFF_STATE, 0))

\* `;` compile EXIT, leave compile state
do_SEMICOLON(v) ==
    NEXT(Store(SetHere(Store(v, v.here, Xt("EXIT")), v.here + 8),
               DataBase + OFF_STATE, 0))

\* `'` read a word, push its execution token, or 0 if it is unknown
do_TICK(v) ==
    LET r  == read_word(v.inp)
        v1 == [v EXCEPT !.inp = r.rest]
        h  == find_word(v1, r.word)
    IN  IF Len(r.word) > 64 THEN OutOfModel(v)
        ELSE IF h = -1 THEN Fault(v1)
        ELSE IF h = 0 THEN NEXT(Push(v1, 0))
        ELSE NEXT(Push(v1, CodeField(v1, h) - Lbase))

\* EXECUTE: W = Lbase + popped xt, branch to its code; IP is untouched
do_EXECUTE(v) ==
    IF Depth(v) < 1 THEN Fault(v)
    ELSE [Pop(v, 1) EXCEPT !.w = Lbase + Top(v)]

\* `\` and `(`: discard input through the newline / the ')'
CommentPrim(v, p) ==
    NEXT([v EXCEPT !.inp = SkipPast(@, IF p = "\\" THEN 10 ELSE 41)])

\* BYE: exit(0)
do_BYE(v) == [v EXCEPT !.pc = "halt", !.exit = 0]

\* QUIT: reset the return stack and STATE, fall into quit_loop
do_QUIT(v) ==
    [Store([v EXCEPT !.rsp = DataBase + OFF_DSPACE], DataBase + OFF_STATE, 0)
        EXCEPT !.pc = IF @ = "code" THEN "quit" ELSE @]

\* the code of the primitive named p
Primitive(v, p) ==
    CASE p \in {"DROP", "DUP", "SWAP", "OVER"} -> StackPrim(v, p)
      [] p \in {"+", "-", "*", "=", "AND", "OR", "XOR", "LSHIFT", "RSHIFT"}
            -> ArithPrim(v, p)
      [] p \in {"@", "C@"} -> FetchPrim(v, p)
      [] p \in {"!", "C!"} -> StorePrim(v, p)
      [] p \in {">R", "R@", "R>"} -> RStackPrim(v, p)
      [] p \in {"EMIT", "TYPE", "KEY"} -> IoPrim(v, p)
      [] p = "LIT" -> do_LIT(v)
      [] p = "LITERAL" -> do_LITERAL(v)
      [] p = "EXIT" -> do_EXIT(v)
      [] p = "BRANCH" -> do_BRANCH(v)
      [] p = "0BRANCH" -> do_0BRANCH(v)
      [] p \in {"HERE", ",", "ALLOT", "STATE", "LATEST"} -> DictPrim(v, p)
      [] p = "IMMEDIATE" -> do_IMMEDIATE(v)
      [] p \in {"[", "]"} -> StatePrim(v, p)
      [] p = ":" -> do_COLON(v)
      [] p = ";" -> do_SEMICOLON(v)
      [] p = "BYE" -> do_BYE(v)
      [] p = "'" -> do_TICK(v)
      [] p = "EXECUTE" -> do_EXECUTE(v)
      [] p \in {"\\", "("} -> CommentPrim(v, p)
      [] p = "STOP" -> [v EXCEPT !.pc = "quit"]
      [] p = "QUIT" -> do_QUIT(v)

(* The outer interpreter *)

\* word_not_found that writes nothing
word_not_found_Silent(v) == v

\* word_not_found: write "?\n" to fd 2 and go on
word_not_found(v) == [v EXCEPT !.err = @ \o <<63, 10>>]

\* execute_word: IP = xt_STOP, W = the code field, branch to its code
execute_word(v, h) ==
    [v EXCEPT !.ip = Lbase + XtStopOff, !.w = CodeField(v, h), !.pc = "code"]

\* found_word: execute if IMMEDIATE or interpreting, else compile the xt
found_word(v, h) ==
    IF (LenByte(v, h) \div F_IMMED) % 2 = 1 \/ StateOf(v) = 0
    THEN execute_word(v, h)
    ELSE [Store(v, v.here, CodeField(v, h) - Lbase) EXCEPT !.here = v.here + 8]

\* a number: parse_number has pushed it and has saved x30 at [RSP - 8];
\* interpreting leaves it on the stack, compiling appends LIT and the value
number_word(v, n) ==
    LET v1 == Store(v, v.rsp - 8, Lbase + QuitRetOff)
    IN  IF StateOf(v1) = 0 THEN Push(v1, n)
        ELSE [Store(Store(v1, v.here, Xt("LIT")), v.here + 8, n)
                EXCEPT !.here = v.here + 16]

\* one turn of quit_loop: read a word, look it up, execute / compile / number
quit_loop(v) ==
    LET r  == read_word(v.inp)
        v1 == [v EXCEPT !.inp = r.rest]
        h  == find_word(v1, r.word)
        n  == parse_number(v1, r.word)
    IN  IF r.word = <<>> THEN v1
        ELSE IF Len(r.word) > 64 THEN OutOfModel(v1)
        ELSE IF h = -1 THEN Fault(v1)
        ELSE IF h # 0 THEN found_word(v1, h)
        ELSE IF n.ok THEN number_word(v1, n.val)
        ELSE word_not_found(Store(v1, v1.rsp - 8, Lbase + QuitRetOff))

\* branch to the code that the code field at W names
Dispatch(v) ==
    IF FetchKind(v, v.w) # "ok" THEN BadFetch(v, v.w)
    ELSE IF Fetch(v, v.w) = DocolOff THEN DOCOL(v)
    ELSE IF Slot(Fetch(v, v.w)) # 0 /\ Fetch(v, v.w) = DoOff(Slot(Fetch(v, v.w)))
        THEN Primitive(v, Builtins[Slot(Fetch(v, v.w))].prim)
    ELSE Fault(v)

\* the VM as _main leaves it at `b next_trampoline`, about to run QUIT
VMInit(input, closed) ==
    NEXT([inp    |-> input,
          eof    |-> closed,
          pc     |-> "code",
          ip     |-> Lbase + ColdStartOff,
          w      |-> 0,
          rsp    |-> DataBase + OFF_DSPACE,
          here   |-> DataBase + OFF_DSPACE,
          latest |-> Lbase + NameOff(NumBuiltins),
          ps     |-> <<>>,
          mem    |-> (DataBase + OFF_STATE  :> 0) @@
                     (DataBase + OFF_HERE   :> OFF_DSPACE) @@
                     (DataBase + OFF_BASE   :> 10) @@
                     (DataBase + OFF_LATEST :> NameOff(NumBuiltins)),
          names  |-> << >>,
          out    |-> <<>>,
          err    |-> <<>>,
          exit   |-> -1])

\* the code at W reads stdin
ReadsInput(v) ==
    \/ v.pc = "quit"
    \/ /\ v.pc = "code"
       /\ FetchKind(v, v.w) = "ok"
       /\ Slot(Fetch(v, v.w)) # 0
       /\ Fetch(v, v.w) = DoOff(Slot(Fetch(v, v.w)))
       /\ Builtins[Slot(Fetch(v, v.w))].prim \in {":", "'", "\\", "(", "KEY"}

\* the VM can take a step: it runs, and is not blocked in read()
CanStep(v) == Running(v) /\ (~ReadsInput(v) \/ v.inp # <<>> \/ v.eof)

\* the VM has read all of its input and is back in quit_loop, or has stopped
Finished(v) == (v.pc = "quit" /\ v.inp = <<>> /\ v.eof) \/ ~Running(v)

VMStep(v) == IF v.pc = "quit" THEN quit_loop(v) ELSE Dispatch(v)

-----------------------------------------------------------------------------
(***************************************************************************)
(* E. The Forth extensions, and the source texts the VM is run on          *)
(***************************************************************************)

\* the bytes of forth.fth (part_002, lines 1-75), as the pipeline sends them
\* to the VM ahead of every other source
Prelude == <<
    92, 32, 83, 116, 97, 103, 101, 32, 50, 58, 32, 69, 120, 116, 101, 110, 100, 101, 100, 32,
    70, 111, 114, 116, 104, 10, 92, 32, 73, 109, 112, 108, 101, 109, 101, 110, 116, 115, 32, 104,
    105, 103, 104, 101, 114, 45, 108, 101, 118, 101, 108, 32, 119, 111, 114, 100, 115, 32, 111, 110,
    32, 116, 111, 112, 32, 111, 102, 32, 83, 116, 97, 103, 101, 32, 49, 32, 112, 114, 105, 109,
    105, 116, 105, 118, 101, 115, 46, 10, 10, 92, 32, 61, 61, 61, 61, 61, 61, 61, 61, 61,
    61, 61, 61, 61, 61, 61, 61, 61, 61, 61, 61, 61, 61, 61, 61, 61, 61, 61, 61, 61,
    61, 61, 61, 61, 61, 61, 61, 61, 61, 61, 61, 61, 61, 61, 61, 61, 61, 61, 61, 61,
    61, 61, 61, 61, 61, 61, 61, 61, 10, 92, 32, 67, 111, 109, 112, 105, 108, 97, 116, 105,
    111, 110, 32, 72, 101, 108, 112, 101, 114, 115, 32, 40, 110, 101, 101, 100, 101, 100, 32, 102,
    105, 114, 115, 116, 32, 102, 111, 114, 32, 73, 70, 47, 84, 72, 69, 78, 47, 69, 76, 83,
    69, 41, 10, 92, 32, 61, 61, 61, 61, 61, 61, 61, 61, 61, 61, 61, 61, 61, 61, 61,
    61, 61, 61, 61, 61, 61, 61, 61, 61, 61, 61, 61, 61, 61, 61, 61, 61, 61, 61, 61,
    61, 61, 61, 61, 61, 61, 61, 61, 61, 61, 61, 61, 61, 61, 61, 61, 61, 61, 61, 61,
    61, 61, 10, 10, 58, 32, 91, 67, 79, 77, 80, 73, 76, 69, 93, 32, 39, 32, 44, 32,
    59, 32, 73, 77, 77, 69, 68, 73, 65, 84, 69, 10, 10, 92, 32, 67, 111, 109, 112, 105,
    108, 101, 32, 116, 104, 101, 32, 101, 120, 101, 99, 117, 116, 105, 111, 110, 32, 116, 111, 107,
    101, 110, 32, 40, 120, 116, 41, 32, 111, 102, 32, 116, 104, 101, 32, 110, 101, 120, 116, 32,
    119, 111, 114, 100, 32, 97, 115, 32, 97, 32, 108, 105, 116, 101, 114, 97, 108, 46, 10, 92,
    32, 84, 104, 105, 115, 32, 114, 101, 108, 105, 101, 115, 32, 111, 110, 32, 83, 116, 97, 103,
    101, 32, 49, 32, 112, 114, 111, 118, 105, 100, 105, 110, 103, 32, 97, 110, 32, 73, 77, 77,
    69, 68, 73, 65, 84, 69, 32, 76, 73, 84, 69, 82, 65, 76, 32, 119, 111, 114, 100, 46,
    10, 58, 32, 91, 39, 93, 32, 39, 32, 91, 67, 79, 77, 80, 73, 76, 69, 93, 32, 76,
    73, 84, 69, 82, 65, 76, 32, 59, 32, 73, 77, 77, 69, 68, 73, 65, 84, 69, 10, 10,
    92, 32, 61, 61, 61, 61, 61, 61, 61, 61, 61, 61, 61, 61, 61, 61, 61, 61, 61, 61,
    61, 61, 61, 61, 61, 61, 61, 61, 61, 61, 61, 61, 61, 61, 61, 61, 61, 61, 61, 61,
    61, 61, 61, 61, 61, 61, 61, 61, 61, 61, 61, 61, 61, 61, 61, 61, 61, 61, 61, 10,
    92, 32, 67, 111, 110, 116, 114, 111, 108, 32, 70, 108, 111, 119, 32, 40, 110, 101, 101, 100,
    101, 100, 32, 98, 101, 102, 111, 114, 101, 32, 63, 68, 85, 80, 41, 10, 92, 32, 61, 61,
    61, 61, 61, 61, 61, 61, 61, 61, 61, 61, 61, 61, 61, 61, 61, 61, 61, 61, 61, 61,
    61, 61, 61, 61, 61, 61, 61, 61, 61, 61, 61, 61, 61, 61, 61, 61, 61, 61, 61, 61,
    61, 61, 61, 61, 61, 61, 61, 61, 61, 61, 61, 61, 61, 61, 61, 10, 10, 58, 32, 73,
    70, 32, 40, 32, 45, 45, 32, 97, 100, 100, 114, 32, 41, 10, 32, 32, 91, 39, 93, 32,
    48, 66, 82, 65, 78, 67, 72, 32, 44, 32, 32, 32, 92, 32, 67, 111, 109, 112, 105, 108,
    101, 32, 48, 66, 82, 65, 78, 67, 72, 10, 32, 32, 72, 69, 82, 69, 32, 32, 32, 32,
    32, 32, 32, 32, 32, 32, 32, 32, 92, 32, 83, 97, 118, 101, 32, 108, 111, 99, 97, 116,
    105, 111, 110, 32, 111, 102, 32, 116, 104, 101, 32, 111, 102, 102, 115, 101, 116, 10, 32, 32,
    48, 32, 44, 32, 32, 32, 32, 32, 32, 32, 32, 32, 32, 32, 32, 32, 92, 32, 80, 108,
    97, 99, 101, 104, 111, 108, 100, 101, 114, 32, 102, 111, 114, 32, 116, 104, 101, 32, 111, 102,
    102, 115, 101, 116, 10, 59, 32, 73, 77, 77, 69, 68, 73, 65, 84, 69, 10, 10, 58, 32,
    84, 72, 69, 78, 32, 40, 32, 97, 100, 100, 114, 32, 45, 45, 32, 41, 10, 32, 32, 72,
    69, 82, 69, 32, 79, 86, 69, 82, 32, 45, 32, 32, 32, 32, 32, 92, 32, 67, 97, 108,
    99, 117, 108, 97, 116, 101, 32, 111, 102, 102, 115, 101, 116, 10, 32, 32, 83, 87, 65, 80,
    32, 33, 32, 32, 32, 32, 32, 32, 32, 32, 32, 32, 92, 32, 80, 97, 116, 99, 104, 32,
    116, 104, 101, 32, 111, 102, 102, 115, 101, 116, 32, 97, 116, 32, 116, 104, 101, 32, 115, 97,
    118, 101, 100, 32, 108, 111, 99, 97, 116, 105, 111, 110, 10, 59, 32, 73, 77, 77, 69, 68,
    73, 65, 84, 69, 10, 10, 58, 32, 69, 76, 83, 69, 32, 40, 32, 97, 100, 100, 114, 32,
    45, 45, 32, 97, 100, 100, 114, 39, 32, 41, 10, 32, 32, 91, 39, 93, 32, 66, 82, 65,
    78, 67, 72, 32, 44, 32, 32, 32, 32, 92, 32, 67, 111, 109, 112, 105, 108, 101, 32, 66,
    82, 65, 78, 67, 72, 10, 32, 32, 72, 69, 82, 69, 32, 32, 32, 32, 32, 32, 32, 32,
    32, 32, 32, 32, 92, 32, 83, 97, 118, 101, 32, 108, 111, 99, 97, 116, 105, 111, 110, 32,
    102, 111, 114, 32, 110, 101, 119, 32, 111, 102, 102, 115, 101, 116, 10, 32, 32, 48, 32, 44,
    32, 32, 32, 32, 32, 32, 32, 32, 32, 32, 32, 32, 32, 92, 32, 80, 108, 97, 99, 101,
    104, 111, 108, 100, 101, 114, 10, 32, 32, 83, 87, 65, 80, 32, 91, 67, 79, 77, 80, 73,
    76, 69, 93, 32, 84, 72, 69, 78, 32, 92, 32, 80, 97, 116, 99, 104, 32, 116, 104, 101,
    32, 73, 70, 32, 98, 114, 97, 110, 99, 104, 32, 116, 111, 32, 112, 111, 105, 110, 116, 32,
    104, 101, 114, 101, 10, 59, 32, 73, 77, 77, 69, 68, 73, 65, 84, 69, 10, 10, 58, 32,
    66, 69, 71, 73, 78, 32, 40, 32, 45, 45, 32, 97, 100, 100, 114, 32, 41, 10, 32, 32,
    72, 69, 82, 69, 10, 59, 32, 73, 77, 77, 69, 68, 73, 65, 84, 69, 10, 10, 58, 32,
    85, 78, 84, 73, 76, 32, 40, 32, 97, 100, 100, 114, 32, 45, 45, 32, 41, 10, 32, 32,
    91, 39, 93, 32, 48, 66, 82, 65, 78, 67, 72, 32, 44, 10, 32, 32, 72, 69, 82, 69,
    32, 45, 32, 44, 32, 32, 32, 32, 32, 32, 32, 32, 92, 32, 67, 111, 109, 112, 105, 108,
    101, 32, 98, 97, 99, 107, 45, 111, 102, 102, 115, 101, 116, 10, 59, 32, 73, 77, 77, 69,
    68, 73, 65, 84, 69, 10, 10, 58, 32, 65, 71, 65, 73, 78, 32, 40, 32, 97, 100, 100,
    114, 32, 45, 45, 32, 41, 10, 32, 32, 91, 39, 93, 32, 66, 82, 65, 78, 67, 72, 32,
    44, 10, 32, 32, 72, 69, 82, 69, 32, 45, 32, 44, 32, 32, 32, 32, 32, 32, 32, 32,
    92, 32, 67, 111, 109, 112, 105, 108, 101, 32, 98, 97, 99, 107, 45, 111, 102, 102, 115, 101,
    116, 10, 59, 32, 73, 77, 77, 69, 68, 73, 65, 84, 69, 10, 10, 92, 32, 61, 61, 61,
    61, 61, 61, 61, 61, 61, 61, 61, 61, 61, 61, 61, 61, 61, 61, 61, 61, 61, 61, 61,
    61, 61, 61, 61, 61, 61, 61, 61, 61, 61, 61, 61, 61, 61, 61, 61, 61, 61, 61, 61,
    61, 61, 61, 61, 61, 61, 61, 61, 61, 61, 61, 61, 61, 61, 10, 92, 32, 66, 97, 115,
    105, 99, 32, 83, 116, 97, 99, 107, 32, 38, 32, 76, 111, 103, 105, 99, 10, 92, 32, 61,
    61, 61, 61, 61, 61, 61, 61, 61, 61, 61, 61, 61, 61, 61, 61, 61, 61, 61, 61, 61,
    61, 61, 61, 61, 61, 61, 61, 61, 61, 61, 61, 61, 61, 61, 61, 61, 61, 61, 61, 61,
    61, 61, 61, 61, 61, 61, 61, 61, 61, 61, 61, 61, 61, 61, 61, 61, 10, 10, 58, 32,
    78, 73, 80, 32, 40, 32, 97, 32, 98, 32, 45, 45, 32, 98, 32, 41, 32, 83, 87, 65,
    80, 32, 68, 82, 79, 80, 32, 59, 10, 58, 32, 84, 85, 67, 75, 32, 40, 32, 97, 32,
    98, 32, 45, 45, 32, 98, 32, 97, 32, 98, 32, 41, 32, 83, 87, 65, 80, 32, 79, 86,
    69, 82, 32, 59, 10, 58, 32, 63, 68, 85, 80, 32, 40, 32, 110, 32, 45, 45, 32, 110,
    32, 110, 32, 124, 32, 48, 32, 41, 32, 68, 85, 80, 32, 73, 70, 32, 68, 85, 80, 32,
    84, 72, 69, 78, 32, 59, 10, 58, 32, 82, 79, 84, 32, 40, 32, 97, 32, 98, 32, 99,
    32, 45, 45, 32, 98, 32, 99, 32, 97, 32, 41, 32, 62, 82, 32, 83, 87, 65, 80, 32,
    82, 62, 32, 83, 87, 65, 80, 32, 59, 10, 58, 32, 50, 68, 82, 79, 80, 32, 40, 32,
    97, 32, 98, 32, 45, 45, 32, 41, 32, 68, 82, 79, 80, 32, 68, 82, 79, 80, 32, 59,
    10, 58, 32, 50, 68, 85, 80, 32, 40, 32, 97, 32, 98, 32, 45, 45, 32, 97, 32, 98,
    32, 97, 32, 98, 32, 41, 32, 79, 86, 69, 82, 32, 79, 86, 69, 82, 32, 59, 10, 10,
    92, 32, 61, 61, 61, 61, 61, 61, 61, 61, 61, 61, 61, 61, 61, 61, 61, 61, 61, 61,
    61, 61, 61, 61, 61, 61, 61, 61, 61, 61, 61, 61, 61, 61, 61, 61, 61, 61, 61, 61,
    61, 61, 61, 61, 61, 61, 61, 61, 61, 61, 61, 61, 61, 61, 61, 61, 61, 61, 61, 10,
    92, 32, 83, 116, 114, 105, 110, 103, 115, 10, 92, 32, 61, 61, 61, 61, 61, 61, 61, 61,
    61, 61, 61, 61, 61, 61, 61, 61, 61, 61, 61, 61, 61, 61, 61, 61, 61, 61, 61, 61,
    61, 61, 61, 61, 61, 61, 61, 61, 61, 61, 61, 61, 61, 61, 61, 61, 61, 61, 61, 61,
    61, 61, 61, 61, 61, 61, 61, 61, 61, 10, 10, 58, 32, 83, 80, 65, 67, 69, 32, 51,
    50, 32, 69, 77, 73, 84, 32, 59, 10, 58, 32, 67, 82, 32, 49, 48, 32, 69, 77, 73,
    84, 32, 59, 10, 10, 92, 32, 61, 61, 61, 61, 61, 61, 61, 61, 61, 61, 61, 61, 61,
    61, 61, 61, 61, 61, 61, 61, 61, 61, 61, 61, 61, 61, 61, 61, 61, 61, 61, 61, 61,
    61, 61, 61, 61, 61, 61, 61, 61, 61, 61, 61, 61, 61, 61, 61, 61, 61, 61, 61, 61,
    61, 61, 61, 61, 10, 92, 32, 84, 101, 115, 116, 32, 40, 99, 111, 109, 109, 101, 110, 116,
    101, 100, 32, 111, 117, 116, 32, 102, 111, 114, 32, 112, 114, 111, 100, 117, 99, 116, 105, 111,
    110, 41, 10, 92, 32, 61, 61, 61, 61, 61, 61, 61, 61, 61, 61, 61, 61, 61, 61, 61,
    61, 61, 61, 61, 61, 61, 61, 61, 61, 61, 61, 61, 61, 61, 61, 61, 61, 61, 61, 61,
    61, 61, 61, 61, 61, 61, 61, 61, 61, 61, 61, 61, 61, 61, 61, 61, 61, 61, 61, 61,
    61, 61, 10, 10, 92, 32, 58, 32, 71, 82, 69, 69, 84, 10, 92, 32, 32, 32, 55, 50,
    32, 69, 77, 73, 84, 32, 49, 48, 49, 32, 69, 77, 73, 84, 32, 49, 48, 56, 32, 69,
    77, 73, 84, 32, 49, 48, 56, 32, 69, 77, 73, 84, 32, 49, 49, 49, 32, 69, 77, 73,
    84, 32, 67, 82, 10, 92, 32, 59, 10, 92, 32, 71, 82, 69, 69, 84, 10 >>

W_COLON == <<58>>
W_SEMI  == <<59>>
W_IF    == <<73, 70>>
W_ELSE  == <<69, 76, 83, 69>>
W_THEN  == <<84, 72, 69, 78>>
\* the name the test definitions are given: T
W_T     == <<84>>
SP      == <<32>>
NL      == <<10>>

RECURSIVE NatText(_)
NatText(n) == IF n < 10 THEN <<48 + n>> ELSE NatText(n \div 10) \o <<48 + (n % 10)>>

\* a decimal numeral as source text
NumText(n) == IF n < 0 THEN <<45>> \o NatText(0 - n) ELSE NatText(n)

(* Bodies of definitions that use IF / ELSE / THEN.  An item is a literal  *)
(* or a conditional with its two branches; the literals mark which code    *)
(* has run.                                                                *)

Lit(n)       == [k |-> "lit", n |-> n, t |-> <<>>, e |-> <<>>, els |-> FALSE]
If(t)        == [k |-> "if",  n |-> 0, t |-> t,    e |-> <<>>, els |-> FALSE]
IfElse(t, e) == [k |-> "if",  n |-> 0, t |-> t,    e |-> e,    els |-> TRUE]

\* the source text of a body
RECURSIVE Render(_)
Render(body) ==
    IF body = <<>> THEN <<>>
    ELSE LET i == Head(body)
         IN  (IF i.k = "lit" THEN NumText(i.n) \o SP
              ELSE W_IF \o SP \o Render(i.t)
                    \o (IF i.els THEN W_ELSE \o SP \o Render(i.e) ELSE <<>>)
                    \o W_THEN \o SP)
             \o Render(Tail(body))

\* what a body is specified to do to the stack: a literal pushes itself; a
\* conditional pops the flag, runs its first branch if the flag is non-zero
\* and its ELSE branch (if any) otherwise; in each case the items after it run
RECURSIVE Meaning(_, _)
Meaning(body, stack) ==
    IF body = <<>> THEN stack
    ELSE LET i    == Head(body)
             rest == SubSeq(stack, 1, Len(stack) - 1)
         IN  IF i.k = "lit" THEN Meaning(Tail(body), Append(stack, i.n))
             ELSE IF stack[Len(stack)] # 0
                  THEN Meaning(Tail(body), Meaning(i.t, rest))
             ELSE Meaning(Tail(body), Meaning(i.e, rest))

BranchBodies == {
    <<If(<<Lit(10)>>), Lit(20)>>,
    <<IfElse(<<Lit(10)>>, <<Lit(30)>>), Lit(20)>>,
    <<If(<<>>), Lit(20)>>,
    <<IfElse(<<>>, <<Lit(30)>>), Lit(20)>>,
    <<IfElse(<<IfElse(<<Lit(10)>>, <<Lit(30)>>), Lit(20)>>, <<Lit(40)>>), Lit(50)>>,
    <<IfElse(<<Lit(10)>>, <<If(<<Lit(30)>>), Lit(40)>>), Lit(20)>>,
    <<If(<<Lit(10)>>), IfElse(<<Lit(30)>>, <<Lit(40)>>), Lit(20)>> }

\* the flags a run starts with
Flags == {0, 1, -1}

\* `: T body ; f1 f2 T` for every body and every two flags
BranchPrograms ==
    { [kind |-> "branch", body |-> b, args |-> a,
       text |-> W_COLON \o SP \o W_T \o SP \o Render(b) \o W_SEMI \o SP
                \o NumText(a[1]) \o SP \o NumText(a[2]) \o SP \o W_T \o NL]
      : b \in BranchBodies, a \in [1..2 -> Flags] }

W_FOO   == <<70, 79, 79>>
W_HERE  == <<72, 69, 82, 69>>
W_UNTIL == <<85, 78, 84, 73, 76>>
W_AGAIN == <<65, 71, 65, 73, 78>>
\* the name of the second test definition: U
W_U     == <<85>>

\* `7 FOO 2` interpreted, and `: T 7 FOO 2 ; T`: FOO is in no dictionary and
\* is no number
UnknownPrograms ==
    { [kind |-> "unknown", compiling |-> FALSE,
       text |-> NumText(7) \o SP \o W_FOO \o SP \o NumText(2) \o NL],
      [kind |-> "unknown", compiling |-> TRUE,
       text |-> W_COLON \o SP \o W_T \o SP \o NumText(7) \o SP \o W_FOO \o SP
                \o NumText(2) \o SP \o W_SEMI \o SP \o W_T \o NL] }

\* `HERE 0 , : U w ;` for a control word w that closes what no IF or BEGIN
\* has opened; the cell on the stack is the address of the cell that `0 ,`
\* laid down, left by HERE in interpret state
UnmatchedPrograms ==
    { [kind |-> "unmatched", closer |-> w,
       text |-> W_HERE \o SP \o NumText(0) \o SP \o <<44>> \o SP \o W_COLON
                \o SP \o W_U \o SP \o w \o SP \o W_SEMI \o NL]
      : w \in {W_THEN, W_ELSE, W_UNTIL, W_AGAIN} }

\* `7 w` for spellings w of DUP, and for names that no letter case turns
\* into the name of a word: { } | ~ and the backquote
FoldWords ==
    { <<68, 85, 80>>, <<100, 117, 112>>, <<68, 117, 112>>, <<100, 85, 80>>,
      <<123>>, <<125>>, <<124>>, <<126>>, <<96>> }

FoldPrograms ==
    { [kind |-> "fold", word |-> w, text |-> NumText(7) \o SP \o w \o NL]
      : w \in FoldWords }

W_ALLOT == <<65, 76, 76, 79, 84>>

\* `n ALLOT` in interpret state
AllotPrograms ==
    { [kind |-> "allot", n |-> n, text |-> NumText(n) \o SP \o W_ALLOT \o NL]
      : n \in {-16, -8, 0, 8} }

RECURSIVE Spaced(_)
Spaced(ws) == IF ws = <<>> THEN <<>> ELSE Head(ws) \o SP \o Spaced(Tail(ws))

W_BEGIN  == <<66, 69, 71, 73, 78>>

\* bodies built of well-formed control structures, as sequences of words
StructBodies ==
    LET n(k) == NumText(k) IN
    { <<W_IF, n(1), W_THEN>>,
      <<W_IF, n(1), W_ELSE, n(2), W_THEN>>,
      <<W_BEGIN, n(1), W_UNTIL>>,
      <<W_BEGIN, n(1), W_AGAIN>>,
      <<W_IF, W_IF, n(1), W_ELSE, W_BEGIN, n(2), W_UNTIL, W_THEN, W_ELSE,
        W_BEGIN, W_IF, n(3), W_THEN, W_AGAIN, W_THEN>>,
      <<W_BEGIN, W_BEGIN, n(1), W_IF, n(2), W_ELSE, n(3), W_THEN, W_UNTIL,
        n(4), W_UNTIL, W_IF, W_THEN>> }

\* `7 : T body ;`: the definition is compiled and not run
StructPrograms ==
    { [kind |-> "struct", body |-> b,
       text |-> NumText(7) \o SP \o W_COLON \o SP \o W_T \o SP \o Spaced(b)
                \o W_SEMI \o NL]
      : b \in StructBodies }

ForthPrograms ==
    BranchPrograms \cup UnknownPrograms \cup UnmatchedPrograms \cup FoldPrograms
        \cup AllotPrograms \cup StructPrograms

FInit ==
    /\ vm = VMInit(Prelude, FALSE)
    /\ vmD = NoVM
    /\ fprog = NoProgram
    /\ LoaderIdle
    /\ cc = NoCC /\ run = NoRun /\ cprog = NoProgram

\* the rest of stdin arrives: one of the test sources, then end of file
FeedSource ==
    /\ vm.pc = "quit" /\ vm.inp = <<>> /\ ~vm.eof
    /\ \E p \in ForthPrograms :
        /\ fprog' = p
        /\ vm' = [vm EXCEPT !.inp = p.text, !.eof = TRUE]
    /\ UNCHANGED <<vmD, lvars, cvars>>

\* quit_loop reads and handles one word
QuitLoop ==
    /\ vm.pc = "quit" /\ CanStep(vm)
    /\ vm' = quit_loop(vm)
    /\ UNCHANGED <<vmD, fprog, lvars, cvars>>

\* the code of the word at W runs, up to and including its NEXT
RunWord ==
    /\ vm.pc = "code" /\ CanStep(vm)
    /\ vm' = Dispatch(vm)
    /\ UNCHANGED <<vmD, fprog, lvars, cvars>>

FNext == FeedSource \/ QuitLoop \/ RunWord

SpecForth == FInit /\ [][FNext]_vars

(* Claims on IF / ELSE / THEN *)

\* C4: for every IF ... THEN compiled into a definition, execution continues
\* after THEN whether the flag was zero or not, and for every
\* IF X ELSE Y THEN exactly one of X and Y runs (X for a non-zero flag, Y for
\* zero) before execution continues after THEN: when the definition has been
\* run, the stack holds exactly the markers of the code that was to run.
C4_BranchSymmetry ==
    (fprog.kind = "branch" /\ Finished(vm))
        => /\ vm.pc = "quit"
           /\ vm.err = <<>>
           /\ vm.ps = Meaning(fprog.body, fprog.args)

\* a definition with a conditional nested in the first branch of another has
\* run with the outer flag non-zero and the inner flag zero
C4_Witness ==
    /\ fprog.kind = "branch" /\ Finished(vm)
    /\ fprog.body = <<IfElse(<<IfElse(<<Lit(10)>>, <<Lit(30)>>), Lit(20)>>,
                             <<Lit(40)>>), Lit(50)>>
    /\ fprog.args = <<0, 1>>
    /\ vm.ps = <<30, 20, 50>>

-----------------------------------------------------------------------------
(***************************************************************************)
(* Two runs of the VM on the same words: interpreted directly, and         *)
(* compiled into a colon definition that is then executed                  *)
(***************************************************************************)

\* longest word sequence w1 ... wn that is tried
MaxBodyWords == 3

Num(n)  == [w |-> "num", n |-> n]
Word(p) == [w |-> p, n |-> 0]

\* words whose action depends on the parameter stack only
PureWords == { Num(2), Num(7), Word("DUP"), Word("DROP"), Word("SWAP"),
               Word("+"), Word("=") }

\* words that use the return stack; none is IMMEDIATE, none alters the
\* dictionary
RStackWords == { Word(">R"), Word("R@"), Word("R>") }

WordText(x) ==
    IF x.w = "num" THEN NumText(x.n) ELSE Builtins[BuiltinIdx(x.w)].name

RECURSIVE WordsText(_)
WordsText(ws) ==
    IF ws = <<>> THEN <<>> ELSE WordText(Head(ws)) \o SP \o WordsText(Tail(ws))

\* `w1 ... wn` and `: T w1 ... wn ; T`
RoundTripPrograms ==
    { [kind   |-> "roundtrip", ws |-> ws,
       direct |-> WordsText(ws) \o NL,
       colon  |-> W_COLON \o SP \o W_T \o SP \o WordsText(ws) \o W_SEMI
                    \o SP \o W_T \o NL]
      : ws \in UNION { [1..n -> PureWords \cup RStackWords]
                        : n \in 1..MaxBodyWords } }

RInit ==
    /\ fprog \in RoundTripPrograms
    /\ vmD = VMInit(fprog.direct, TRUE)
    /\ vm = VMInit(fprog.colon, TRUE)
    /\ LoaderIdle
    /\ cc = NoCC /\ run = NoRun /\ cprog = NoProgram

\* the VM that interprets w1 ... wn directly takes a step
StepDirect ==
    /\ ~Finished(vmD) /\ CanStep(vmD)
    /\ vmD' = VMStep(vmD)
    /\ UNCHANGED <<vm, fprog, lvars, cvars>>

\* the VM that defines and executes T takes a step
StepColon ==
    /\ Finished(vmD)
    /\ ~Finished(vm) /\ CanStep(vm)
    /\ vm' = VMStep(vm)
    /\ UNCHANGED <<vmD, fprog, lvars, cvars>>

RNext == StepDirect \/ StepColon

SpecRoundTrip == RInit /\ [][RNext]_vars

BothFinished == fprog.kind = "roundtrip" /\ Finished(vmD) /\ Finished(vm)

SameStackEffect == vm.pc = vmD.pc /\ (vmD.pc = "quit" => vm.ps = vmD.ps)

\* C3 as stated: for ANY words that are not IMMEDIATE and do not alter the
\* dictionary, `: T w1 ... wn ; T` has the same net effect on the parameter
\* stack as interpreting w1 ... wn.
C3_AnyWords == BothFinished => SameStackEffect

\* C3 (amended): the same, for numeric literals and words whose action
\* depends on the parameter stack only.
C3_RoundTrip ==
    (BothFinished /\ Range(fprog.ws) \subseteq PureWords) => SameStackEffect

\* both runs of `2 7 SWAP` have ended with 7 2 on the stack
C3_Witness ==
    /\ BothFinished
    /\ fprog.ws = <<Num(2), Num(7), Word("SWAP")>>
    /\ vmD.pc = "quit" /\ vmD.ps = <<7, 2>>
    /\ vm.pc = "quit" /\ vm.ps = <<7, 2>>


-----------------------------------------------------------------------------
(* C. The C-subset compiler (stage3/cc.fth)                                 *)
(*                                                                          *)
(* A run of the compiler is a record c.  Its fields are the cells of the    *)
(* cell map (cc.fth 46-78) and the buffers CC-ALLOC allots:                 *)
(*   src, pos      stdin after the line `CC`, and how much KEY has consumed *)
(*   ungetn, unget0, unget1          UNGET-COUNT, UNGET0, UNGET1            *)
(*   tok, tokval, toklen, idbuf      TOK, TOKVAL, TOKLEN, the bytes at IDBUF*)
(*   fnbuf, callbuf, calleebuf       the FNLEN / CALLLEN / CALLEELEN bytes  *)
(*   symtab, locoff                  SYMCOUNT records of the table, LOCOFF  *)
(*   retlbl, lblcount                RETLBL, LBLCOUNT                       *)
(*   srcmode, tbuf, tbidx, savtok    SRCMODE, TBUFN records, TBIDX, saved   *)
(*   out           stdout, a sequence of lines (see Line)                   *)
(*   pc            "init" before CC, "loop" in CC's BEGIN..AGAIN, "body"    *)
(*                 in the body of a function, "halt" after BYE              *)
(*   exit          the process exit status once pc = "halt"                 *)
(*   ch, ty, n     the value a word leaves on the parameter stack: a        *)
(*                 character, an expression type, a number                  *)
(*   errpos        history: pos when FAIL ran, -1 before                    *)
(*   marks         history: Len(out) after each FUNC                        *)
(*   ungetmax      history: the largest UNGET-COUNT so far                  *)
(*   ungetdrops    history: how many characters UNGETC has DROPped because  *)
(*                 UNGET-COUNT was already 2                                *)
(* A word of cc.fth is an operator from records to records.  BYE ends the   *)
(* process, so every word leaves a halted record alone.                     *)

Halted(c) == c.pc = "halt"

\* one line of output: a template t, in which %r stands for a register
\* digit (the character 48+n that .W and .X emit), %i for the eight
\* digits .HEX32 emits and %n for a name that TYPE emits
Line(t, r, i, n) == [t |-> t, r |-> r, i |-> i, n |-> n]
Text(t) == Line(t, 0, <<>>, <<>>)

EMITLINE(c, l) == IF Halted(c) THEN c ELSE [c EXCEPT !.out = Append(@, l)]

\* several lines, one after the other
EMITLINES(c, ls) == IF Halted(c) THEN c ELSE [c EXCEPT !.out = @ \o ls]

\* BYE: do_BYE, exit(0)
BYE(c) == IF Halted(c) THEN c ELSE [c EXCEPT !.pc = "halt", !.exit = 0]

\* FAIL without the diagnostic
FAIL_Silent(c) ==
    IF Halted(c) THEN c ELSE BYE([c EXCEPT !.errpos = c.pos])

\* FAIL: "ERR\n", then BYE
FAIL(c) ==
    IF Halted(c) THEN c
    ELSE BYE([EMITLINE(c, Text("ERR")) EXCEPT !.errpos = c.pos])

(* Character classes *)
IsEOF(ch)   == ch = -1
IsWS(ch)    == ~IsEOF(ch) /\ ch <= 32
IsUPPER(ch) == ch >= 65 /\ ch <= 90
IsLOWER(ch) == ch >= 97 /\ ch <= 122
IsUNDER(ch) == ch = 95
IsALPHA(ch) == IsUPPER(ch) \/ IsLOWER(ch) \/ IsUNDER(ch)
IsDIGIT(ch) == ch >= 48 /\ ch <= 57
IsALNUM(ch) == IsALPHA(ch) \/ IsDIGIT(ch)
TOLOWER(ch) == IF IsUPPER(ch) THEN ch + 32 ELSE ch
IsEOL(ch)   == ch = 10 \/ ch = 13

\* the cells of the body of the newest definition
BodyCells(v) ==
    { a \in DOMAIN v.mem : a > CodeField(v, v.latest) /\ a < v.here }

\* the offset cells of the body: those that follow the xt of BRANCH or 0BRANCH
OffsetCells(v) ==
    { a \in BodyCells(v) : Fetch(v, a - 8) \in {Xt("BRANCH"), Xt("0BRANCH")}
                           /\ a - 8 \in BodyCells(v) }

\* C36: compiling well-formed control structures (IF THEN, IF ELSE THEN,
\* BEGIN UNTIL, BEGIN AGAIN, nested) leaves the parameter stack as it was
\* before the definition, every offset cell of the definition is patched when
\* the definition is closed, and an offset cell that has been patched is not
\* written again.
C36_StructuresBalanced ==
    /\ []((fprog.kind = "struct" /\ Finished(vm)) =>
            /\ vm.pc = "quit" /\ vm.err = <<>>
            /\ vm.ps = <<7>>
            /\ StateOf(vm) = 0
            /\ \A a \in OffsetCells(vm) : Fetch(vm, a) # 0)
    /\ [][(fprog.kind = "struct" /\ fprog' = fprog) =>
            \A a \in OffsetCells(vm) :
                Fetch(vm, a) # 0 => Fetch(vm', a) = Fetch(vm, a)]_vars

\* the definition with loops nested in both branches of a conditional is
\* closed: it has seven offset cells
C36_Witness ==
    /\ fprog.kind = "struct" /\ Finished(vm) /\ vm.ps = <<7>>
    /\ Cardinality(OffsetCells(vm)) = 7

(* Token kinds *)
TK_ID     == 256
TK_NUM    == 257
KW_INT    == 258
KW_RETURN == 259
KW_IF     == 260
KW_ELSE   == 261
KW_WHILE  == 262
KW_FOR    == 263
TK_EQEQ   == 300
TK_NEQ    == 301
TK_LE     == 302
TK_GE     == 303

(* Lexer *)

\* KEY: do_KEY reads one byte of stdin, -1 at end of file
KEY(c) ==
    IF c.pos < Len(c.src)
    THEN [c EXCEPT !.ch = c.src[c.pos + 1], !.pos = c.pos + 1]
    ELSE [c EXCEPT !.ch = -1]

GETC(c) ==
    IF Halted(c) THEN c
    ELSE IF c.ungetn = 0 THEN KEY(c)
    ELSE IF c.ungetn = 1 THEN [c EXCEPT !.ch = c.unget0, !.ungetn = 0]
    ELSE [c EXCEPT !.ch = c.unget1, !.ungetn = 1]

\* an unget buffer of one cell: a second pushed-back character is lost
UNGETC_OneSlot(c, x) ==
    IF Halted(c) THEN c
    ELSE IF c.ungetn = 0
         THEN [c EXCEPT !.unget0 = x, !.ungetn = 1,
                        !.ungetmax = IF @ < 1 THEN 1 ELSE @]
    ELSE [c EXCEPT !.ungetdrops = @ + 1]

UNGETC(c, x) ==
    IF Halted(c) THEN c
    ELSE IF c.ungetn = 0
         THEN [c EXCEPT !.unget0 = x, !.ungetn = 1,
                        !.ungetmax = IF @ < 1 THEN 1 ELSE @]
    ELSE IF c.ungetn = 1
         THEN [c EXCEPT !.unget1 = x, !.ungetn = 2, !.ungetmax = 2]
    ELSE [c EXCEPT !.ungetdrops = @ + 1]

RECURSIVE SKIP_LINE(_)
SKIP_LINE(c) ==
    LET g == GETC(c) IN
    IF IsEOF(g.ch) \/ IsEOL(g.ch) THEN g ELSE SKIP_LINE(g)

RECURSIVE SKIP_BLOCK(_)
SKIP_BLOCK(c) ==
    LET g == GETC(c) IN
    IF IsEOF(g.ch) THEN g
    ELSE IF g.ch = 42
    THEN LET h == GETC(g) IN
         IF IsEOF(h.ch) \/ h.ch = 47 THEN h
         ELSE SKIP_BLOCK(UNGETC(h, h.ch))
    ELSE SKIP_BLOCK(g)

RECURSIVE SKIP_WS(_)
SKIP_WS(c) ==
    LET g == GETC(c) IN
    IF IsEOF(g.ch) THEN UNGETC(g, g.ch)
    ELSE IF IsWS(g.ch) THEN SKIP_WS(g)
    ELSE IF g.ch = 47
    THEN LET h == GETC(g) IN
         IF IsEOF(h.ch) THEN UNGETC(UNGETC(h, h.ch), 47)
         ELSE IF h.ch = 47 THEN SKIP_WS(SKIP_LINE(h))
         ELSE IF h.ch = 42 THEN SKIP_WS(SKIP_BLOCK(h))
         ELSE UNGETC(UNGETC(h, h.ch), 47)
    ELSE UNGETC(g, g.ch)

\* the byte at IDBUF + i
IDat(c, i) == IF i < Len(c.idbuf) THEN c.idbuf[i + 1] ELSE 0

\* STORE-ID ( idx c -- idx' ): the lower-cased character goes to IDBUF + idx,
\* the bytes after it stay; idx' is left in n
STORE_ID(c, idx, ch) ==
    [c EXCEPT !.idbuf = SubSeq(@, 1, idx) \o <<TOLOWER(ch)>>
                        \o SubSeq(@, idx + 2, Len(@)),
              !.n = idx + 1]

RECURSIVE ReadIdentLoop(_)
ReadIdentLoop(c) ==
    LET g == GETC(c) IN
    IF IsALNUM(g.ch) THEN ReadIdentLoop(STORE_ID(g, g.n, g.ch))
    ELSE UNGETC(g, g.ch)

\* READIDENT ( c -- len ): the length is left in n
READIDENT(c, ch) == ReadIdentLoop(STORE_ID(c, 0, ch))

DIGITVAL(ch) == ch - 48

RECURSIVE ReadNumLoop(_)
ReadNumLoop(c) ==
    LET g == GETC(c) IN
    IF IsDIGIT(g.ch) THEN ReadNumLoop([g EXCEPT !.n = g.n * 10 + DIGITVAL(g.ch)])
    ELSE UNGETC(g, g.ch)

\* READNUM ( c -- n )
READNUM(c, ch) == ReadNumLoop([c EXCEPT !.n = DIGITVAL(ch)])

\* IS-INT? and the like: TOKLEN and the first bytes at IDBUF
IsName(c, w) == c.toklen = Len(w) /\ \A i \in 1..Len(w) : IDat(c, i - 1) = w[i]
IS_INT(c)    == IsName(c, <<105, 110, 116>>)
IS_RETURN(c) == IsName(c, <<114, 101, 116, 117, 114, 110>>)
IS_IF(c)     == IsName(c, <<105, 102>>)
IS_ELSE(c)   == IsName(c, <<101, 108, 115, 101>>)
IS_WHILE(c)  == IsName(c, <<119, 104, 105, 108, 101>>)
IS_FOR(c)    == IsName(c, <<102, 111, 114>>)

\* a 56-byte token record: kind, value, length and 32 bytes of the name
First32(s) == IF Len(s) <= 32 THEN s ELSE SubSeq(s, 1, 32)
TokRec(c) == [tok |-> c.tok, val |-> c.tokval, len |-> c.toklen,
              name |-> First32(c.idbuf)]

\* copying 32 bytes back to IDBUF leaves the bytes after them alone
Over32(name, old) ==
    IF Len(old) <= Len(name) THEN name
    ELSE name \o SubSeq(old, Len(name) + 1, Len(old))

SetTok(c, k, v, l) == [c EXCEPT !.tok = k, !.tokval = v, !.toklen = l]

REPLAY_NEXT(c) ==
    IF c.tbidx = Len(c.tbuf) THEN SetTok(c, 0, 0, 0)
    ELSE LET r == c.tbuf[c.tbidx + 1] IN
         [c EXCEPT !.tok = r.tok, !.tokval = r.val, !.toklen = r.len,
                   !.idbuf = Over32(r.name, @), !.tbidx = @ + 1]

\* the lookahead of = < > : the two-character kind when '=' follows
Lookahead(c, one, two) ==
    LET g == GETC(c) IN
    IF g.ch = 61 THEN [g EXCEPT !.tok = two]
    ELSE [UNGETC(g, g.ch) EXCEPT !.tok = one]

NEXTTOK(c) ==
    IF Halted(c) THEN c
    ELSE IF c.srcmode # 0 THEN REPLAY_NEXT(c)
    ELSE
    LET Keyword(t) ==
            [t EXCEPT !.tok = CASE IS_INT(t) -> KW_INT
                                [] IS_RETURN(t) -> KW_RETURN
                                [] IS_IF(t) -> KW_IF
                                [] IS_ELSE(t) -> KW_ELSE
                                [] IS_WHILE(t) -> KW_WHILE
                                [] IS_FOR(t) -> KW_FOR
                                [] OTHER -> TK_ID]
        Ident(r) == Keyword([r EXCEPT !.toklen = r.n, !.tokval = 0])
        Number(r) == SetTok(r, TK_NUM, r.n, 0)
        Bang(h) == IF h.ch = 61 THEN [h EXCEPT !.tok = TK_NEQ] ELSE FAIL(h)
        Scan(g, z) ==
            CASE IsEOF(g.ch) -> SetTok(g, 0, 0, 0)
              [] IsALPHA(g.ch) -> Ident(READIDENT(g, g.ch))
              [] IsDIGIT(g.ch) -> Number(READNUM(g, g.ch))
              [] g.ch = 61 -> Lookahead(z, 61, TK_EQEQ)
              [] g.ch = 33 -> Bang(GETC(z))
              [] g.ch = 60 -> Lookahead(z, 60, TK_LE)
              [] g.ch = 62 -> Lookahead(z, 62, TK_GE)
              [] OTHER -> [z EXCEPT !.tok = g.ch]
        Zeroed(g) == Scan(g, [g EXCEPT !.tokval = 0, !.toklen = 0])
    IN Zeroed(GETC(SKIP_WS(c)))

(* Parser helpers *)

\* the inner interpreter: the word named w runs on c.  The words called from
\* many places are called by name, as threaded code calls them: NEXTTOK, EXPR
\* and STMT (which cc.fth itself calls through EXPRXT and STMTXT), and the
\* the operand of a binary operator, and the parts of CC and FUNC
RECURSIVE Call(_, _)

EXPECT0(c, kind) == IF Halted(c) \/ c.tok = kind THEN c ELSE FAIL(c)

\* EXPECT without the test of the current token
EXPECT_AnyToken(c, kind) == Call("NEXTTOK", c)

EXPECT(c, kind) == Call("NEXTTOK", EXPECT0(c, kind))

\* the TOKLEN bytes at IDBUF
IdBytes(c) == SubSeq(c.idbuf, 1, c.toklen)

SAVE_ID(c) == IF Halted(c) THEN c ELSE [c EXCEPT !.callbuf = IdBytes(c)]

SAVE_CALLEE(c) == IF Halted(c) THEN c ELSE [c EXCEPT !.calleebuf = c.callbuf]

EXPECT_ID(c) ==
    IF Halted(c) THEN c
    ELSE IF c.tok # TK_ID THEN FAIL(c)
    ELSE Call("NEXTTOK", SAVE_ID(c))

\* EXPECT-NUM ( -- n )
EXPECT_NUM(c) ==
    IF Halted(c) THEN c
    ELSE IF c.tok # TK_NUM THEN FAIL(c)
    ELSE Call("NEXTTOK", [c EXCEPT !.n = c.tokval])

(* Symbol table (per function) *)

SYM_INIT(c) == IF Halted(c) THEN c ELSE [c EXCEPT !.symtab = <<>>, !.locoff = 0]

\* SYM-FIND ( -- idx|-1 ): the first record that carries the name in CALLBUF
SYM_FIND(c) ==
    LET hits == { i \in 1..Len(c.symtab) : c.symtab[i].name = c.callbuf } IN
    IF hits = {} THEN -1
    ELSE (CHOOSE i \in hits : \A j \in hits : i <= j) - 1

ALIGN8(x) == ((x + 7) \div 8) * 8

\* SYM-ADD ( type aux -- off ): the offset is left in n
SYM_ADD(c, type, aux) ==
    IF Halted(c) THEN c
    ELSE IF Len(c.symtab) >= 64 THEN FAIL(c)
    ELSE LET bytes == IF type = 2 THEN ALIGN8(aux * 4) ELSE 8
             off == c.locoff + bytes
         IN [c EXCEPT !.locoff = off,
                      !.symtab = Append(@, [off |-> off, type |-> type,
                                            aux |-> aux, name |-> c.callbuf]),
                      !.n = off]

(* Codegen helpers (text emission) *)

HEXCHAR(d) == IF d < 10 THEN 48 + d ELSE 87 + d

\* .HEX32: the low 32 bits of x as eight lower-case hexadecimal digits
\* (\div rounds down, so a negative x gives its two's complement digits)
HEX32(x) == [k \in 1..8 |-> HEXCHAR((x \div (16 ^ (8 - k))) % 16)]

\* .W and .X: the register digit is the character 48 + n
RegChar(x) == 48 + x

LBLDEF(c, id) == EMITLINE(c, Line(".L%i:", 0, HEX32(id), <<>>))

GEN_HEADER(c) ==
    EMITLINE(EMITLINE(EMITLINE(c,
        Line(".global _%n", 0, <<>>, c.fnbuf)),
        Text(".align 4")),
        Line("_%n:", 0, <<>>, c.fnbuf))

\* GEN-PROLOGUE that leaves out the frame
GEN_PROLOGUE_NoFramePointer(c) ==
    EMITLINE(EMITLINE(c,
        Text("  stp x29, x30, [sp, #-16]!")),
        Line("  sub sp, sp, #0x%i", 0, HEX32(512), <<>>))

GEN_PROLOGUE(c) ==
    EMITLINE(EMITLINE(EMITLINE(c,
        Text("  stp x29, x30, [sp, #-16]!")),
        Text("  mov x29, sp")),
        Line("  sub sp, sp, #0x%i", 0, HEX32(512), <<>>))

\* GEN-EPILOGUE that does not reset the stack pointer
GEN_EPILOGUE_NoMovSp(c) ==
    EMITLINE(EMITLINE(c,
        Text("  ldp x29, x30, [sp], #16")),
        Text("  ret"))

GEN_EPILOGUE(c) ==
    EMITLINE(EMITLINE(EMITLINE(c,
        Text("  mov sp, x29")),
        Text("  ldp x29, x30, [sp], #16")),
        Text("  ret"))

GEN_MOV_W0_IMM(c, x) == EMITLINE(c, Line("  mov w0, #0x%i", 0, HEX32(x), <<>>))
GEN_ADDR_X29(c, off) == EMITLINE(c, Line("  sub x0, x29, #0x%i", 0, HEX32(off), <<>>))
GEN_LDR_W0_X0(c)     == EMITLINE(c, Text("  ldr w0, [x0]"))
GEN_LDR_X0_X0(c)     == EMITLINE(c, Text("  ldr x0, [x0]"))
GEN_STR_W0_X1(c)     == EMITLINE(c, Text("  str w0, [x1]"))
GEN_STR_X0_X1(c)     == EMITLINE(c, Text("  str x0, [x1]"))
GEN_STRW_X29(c, reg, off) ==
    EMITLINE(c, Line("  str w%r, [x29, #-0x%i]", RegChar(reg), HEX32(off), <<>>))
GEN_PUSH_W0(c)       == EMITLINE(c, Text("  str w0, [sp, #-16]!"))
GEN_POP_W1(c)        == EMITLINE(c, Text("  ldr w1, [sp], #16"))
GEN_PUSH_X0(c)       == EMITLINE(c, Text("  str x0, [sp, #-16]!"))
GEN_POP_X1(c)        == EMITLINE(c, Text("  ldr x1, [sp], #16"))
\* GEN-POP-ARG that pops every argument into w0
GEN_POP_ARG_Reg0(c, reg) == EMITLINE(c, Line("  ldr w%r, [sp], #16", RegChar(0), <<>>, <<>>))

GEN_POP_ARG(c, reg)  == EMITLINE(c, Line("  ldr w%r, [sp], #16", RegChar(reg), <<>>, <<>>))
GEN_B(c, id)         == EMITLINE(c, Line("  b .L%i", 0, HEX32(id), <<>>))
GEN_CBZ(c, id)       == EMITLINE(c, Line("  cbz w0, .L%i", 0, HEX32(id), <<>>))
GEN_CALL(c)          == EMITLINE(c, Line("  bl _%n", 0, <<>>, c.calleebuf))

(* Expression codegen and types: 0 int rvalue, 1 pointer rvalue,           *)
(* 2 int lvalue, 3 pointer lvalue (the address is in x0)                    *)

BASE(ty) == ty % 2
IsLV(ty) == (ty \div 2) % 2 = 1
TY_INT_LV == 2
TY_PTR_LV == 3

SetTy(c, ty) == IF Halted(c) THEN c ELSE [c EXCEPT !.ty = ty]

\* RVAL that loads a word whatever the base
RVAL_WordOnly(c) ==
    IF Halted(c) \/ ~IsLV(c.ty) THEN c
    ELSE SetTy(GEN_LDR_W0_X0(c), 0)

\* RVAL ( ty -- ty' )
RVAL(c) ==
    IF Halted(c) \/ ~IsLV(c.ty) THEN c
    ELSE IF BASE(c.ty) # 0 THEN SetTy(GEN_LDR_X0_X0(c), 1)
    ELSE SetTy(GEN_LDR_W0_X0(c), 0)

WANT_INT(c) == LET r == RVAL(c) IN IF Halted(r) \/ r.ty = 0 THEN r ELSE FAIL(r)
WANT_PTR(c) == LET r == RVAL(c) IN IF Halted(r) \/ r.ty = 1 THEN r ELSE FAIL(r)

(* Expression parser (recursive descent).  Every word leaves the type of   *)
(* the expression in ty.                                                    *)

RECURSIVE ASSIGN(_), UNARY(_)

\* CALL-EXPR: EXPRXT holds the xt of EXPR
CALL_EXPR(c) == Call("EXPR", c)

\* the arguments of a call: each is pushed; the count is left in n
RECURSIVE ArgLoop(_, _)
ArgLoop(c, argc) ==
    IF Halted(c) THEN c
    ELSE LET a == CALL_EXPR(c)
             e == <<a, GEN_PUSH_W0(WANT_INT(a))>>[2]
         IN IF Halted(e) THEN e
            ELSE IF e.tok = 44 THEN ArgLoop(EXPECT(e, 44), argc + 1)
            ELSE [e EXCEPT !.n = argc + 1]

\* the arguments are popped into w(argc-1) .. w0
RECURSIVE PopArgs(_, _)
PopArgs(c, k) ==
    IF Halted(c) \/ k = 0 THEN c ELSE PopArgs(GEN_POP_ARG(c, k - 1), k - 1)

PRIMARY(c) ==
    CASE Halted(c) -> c
      [] c.tok = 40 ->
            LET o == EXPECT(c, 40)
                e == CALL_EXPR(o)
            IN <<o, e, EXPECT(e, 41)>>[3]
      [] c.tok = TK_NUM -> SetTy(Call("NEXTTOK", GEN_MOV_W0_IMM(c, c.tokval)), 0)
      [] c.tok = TK_ID ->
            LET \* a call
                CallEnd(b, argc) ==
                    LET f == IF ~Halted(b) /\ argc > 8 THEN FAIL(b) ELSE b
                    IN <<f, SetTy(GEN_CALL(PopArgs(f, argc)), 0)>>[2]
                CallArgs(a, argc) == <<a, CallEnd(EXPECT(a, 41), argc)>>[2]
                CallOpen(o) ==
                    IF o.tok = 41 THEN CallArgs(o, 0)
                    ELSE LET a == ArgLoop(o, 0) IN CallArgs(a, a.n)
                CallSite(s) ==
                    LET o == EXPECT(SAVE_CALLEE(s), 40) IN <<o, CallOpen(o)>>[2]
                \* a variable
                VarRec(s, rec) ==
                    IF rec.type = 2 THEN SetTy(GEN_ADDR_X29(s, rec.off), 1)
                    ELSE SetTy(GEN_ADDR_X29(s, rec.off),
                               IF rec.type = 0 THEN TY_INT_LV ELSE TY_PTR_LV)
                Variable(s, idx) ==
                    IF idx = -1 THEN FAIL(s) ELSE VarRec(s, s.symtab[idx + 1])
                Ident(s) ==
                    CASE Halted(s) -> s
                      [] s.tok = 40 -> CallSite(s)
                      [] OTHER -> Variable(s, SYM_FIND(s))
            IN Ident(Call("NEXTTOK", SAVE_ID(c)))
      [] OTHER -> FAIL(c)

RECURSIVE PostfixLoop(_)
PostfixLoop(c) ==
    IF Halted(c) THEN c
    ELSE IF c.tok = 91 THEN
        LET l == EXPECT(GEN_PUSH_X0(WANT_PTR(c)), 91)
            e == CALL_EXPR(l)
            r == GEN_POP_X1(EXPECT(WANT_INT(e), 93))
            x == SetTy(EMITLINE(EMITLINE(EMITLINE(r,
                     Text("  lsl w0, w0, #2")),
                     Text("  sxtw x0, w0")),
                     Text("  add x0, x1, x0")), TY_INT_LV)
        IN PostfixLoop(<<l, e, r, x>>[4])
    ELSE c

POSTFIX(c) == LET p == Call("PRIMARY", c) IN <<p, PostfixLoop(p)>>[2]

\* UNARY whose `*` keeps the base of what `&` was applied to
UNARY_DerefKeepsPtr(c) ==
    CASE Halted(c) -> c
      [] c.tok = 45 ->
            LET o == EXPECT(c, 45)
                u == UNARY(o)
            IN <<o, u, SetTy(EMITLINE(WANT_INT(u), Text("  neg w0, w0")), 0)>>[3]
      [] c.tok = 38 ->
            LET o == EXPECT(c, 38)
                u == <<o, UNARY(o)>>[2]
            IN IF Halted(u) THEN u
               ELSE IF ~IsLV(u.ty) THEN FAIL(u) ELSE SetTy(u, 1)
      [] c.tok = 42 ->
            LET o == EXPECT(c, 42)
                u == UNARY(o)
            IN <<o, u, SetTy(WANT_PTR(u), TY_PTR_LV)>>[3]
      [] OTHER -> POSTFIX(c)

UNARY(c) ==
    CASE Halted(c) -> c
      [] c.tok = 45 ->
            LET o == EXPECT(c, 45)
                u == UNARY(o)
            IN <<o, u, SetTy(EMITLINE(WANT_INT(u), Text("  neg w0, w0")), 0)>>[3]
      [] c.tok = 38 ->
            LET o == EXPECT(c, 38)
                u == <<o, UNARY(o)>>[2]
            IN IF Halted(u) THEN u
               ELSE IF ~IsLV(u.ty) THEN FAIL(u) ELSE SetTy(u, 1)
      [] c.tok = 42 ->
            LET o == EXPECT(c, 42)
                u == UNARY(o)
            IN <<o, u, SetTy(WANT_PTR(u), TY_INT_LV)>>[3]
      [] OTHER -> POSTFIX(c)

\* the left operand is pushed, the operator expected; the right operand,
\* once parsed as an int rvalue, is followed by the pop of the left one
\* and the instructions of the operator
PushLeft(c, kind) == EXPECT(GEN_PUSH_W0(WANT_INT(c)), kind)
PopLeft(c) == GEN_POP_W1(WANT_INT(c))

RECURSIVE MulLoop(_)
MulLoop(c) ==
    LET l == PushLeft(c, c.tok)
        u == Call("UNARY", l)
        r == PopLeft(u)
        ls == CASE c.tok = 42 -> <<Text("  mul w0, w1, w0")>>
                [] c.tok = 47 -> <<Text("  sdiv w0, w1, w0")>>
                [] c.tok = 37 -> <<Text("  sdiv w2, w1, w0"),
                                   Text("  msub w0, w2, w0, w1")>>
    IN IF Halted(c) \/ c.tok \notin {42, 47, 37} THEN c
       ELSE MulLoop(<<l, u, r, SetTy(EMITLINES(r, ls), 0)>>[4])

\* the words a word begins with are unfolded, so that each is evaluated in
\* turn: MUL is UNARY and then MUL's loop
MUL(c) == LET u == Call("UNARY", c) IN <<u, MulLoop(u)>>[2]

RECURSIVE AddLoop(_)
AddLoop(c) ==
    LET l == PushLeft(c, c.tok)
        m == Call("MUL", l)
        r == PopLeft(m)
        ls == CASE c.tok = 43 -> <<Text("  add w0, w1, w0")>>
                [] c.tok = 45 -> <<Text("  sub w0, w1, w0")>>
    IN IF Halted(c) \/ c.tok \notin {43, 45} THEN c
       ELSE AddLoop(<<l, m, r, SetTy(EMITLINES(r, ls), 0)>>[4])

\* MUL (UNARY, MUL's loop), then ADD's loop
ADD(c) ==
    LET u == Call("UNARY", c)
        m == Call("MulLoop", u)
    IN <<u, m, AddLoop(m)>>[3]

\* cmp w1, w0 and cset w0, <cond>
Compare(c, cond) ==
    SetTy(EMITLINE(EMITLINE(c, Text("  cmp w1, w0")), Text(cond)), 0)

RECURSIVE RelLoop(_)
RelLoop(c) ==
    LET l == PushLeft(c, c.tok)
        a == Call("ADD", l)
        r == PopLeft(a)
        cond == CASE c.tok = 60 -> "  cset w0, lt"
                  [] c.tok = TK_LE -> "  cset w0, le"
                  [] c.tok = 62 -> "  cset w0, gt"
                  [] c.tok = TK_GE -> "  cset w0, ge"
    IN IF Halted(c) \/ c.tok \notin {60, TK_LE, 62, TK_GE} THEN c
       ELSE RelLoop(<<l, a, r, Compare(r, cond)>>[4])

\* ADD (UNARY, MUL's loop, ADD's loop), then REL's loop
REL(c) ==
    LET u == Call("UNARY", c)
        m == Call("MulLoop", u)
        a == Call("AddLoop", m)
    IN <<u, m, a, RelLoop(a)>>[4]

RECURSIVE EqLoop(_)
EqLoop(c) ==
    LET l == PushLeft(c, c.tok)
        a == Call("REL", l)
        r == PopLeft(a)
        cond == CASE c.tok = TK_EQEQ -> "  cset w0, eq"
                  [] c.tok = TK_NEQ -> "  cset w0, ne"
    IN IF Halted(c) \/ c.tok \notin {TK_EQEQ, TK_NEQ} THEN c
       ELSE EqLoop(<<l, a, r, Compare(r, cond)>>[4])

\* REL (UNARY, MUL's loop, ADD's loop, REL's loop), then EQ's loop
EQ(c) ==
    LET u == Call("UNARY", c)
        m == Call("MulLoop", u)
        a == Call("AddLoop", m)
        r == Call("RelLoop", a)
    IN <<u, m, a, r, EqLoop(r)>>[5]

ASSIGN(c) ==
    LET e == Call("EQ", c) IN
    IF Halted(e) \/ e.tok # 61 THEN e
    ELSE IF ~IsLV(e.ty) THEN FAIL(e)
    ELSE LET base == BASE(e.ty)
             o == EXPECT(GEN_PUSH_X0(e), 61)
             r == ASSIGN(o)
             w == GEN_POP_X1(IF base # 0 THEN WANT_PTR(r) ELSE WANT_INT(r))
         IN <<o, r, SetTy(IF base # 0 THEN GEN_STR_X0_X1(w) ELSE GEN_STR_W0_X1(w),
                          base)>>[3]

EXPR(c) == ASSIGN(c)

(* Statements *)

\* NEWLBL ( -- id ): the id is left in n
NEWLBL_NoIncrement(c) == IF Halted(c) THEN c ELSE [c EXCEPT !.n = c.lblcount]

NEWLBL(c) ==
    IF Halted(c) THEN c ELSE [c EXCEPT !.n = c.lblcount, !.lblcount = @ + 1]

GEN_RETJMP(c) == GEN_B(c, c.retlbl)

TOK_SAVE(c) == IF Halted(c) THEN c ELSE [c EXCEPT !.savtok = TokRec(c)]

TOK_RESTORE(c) ==
    IF Halted(c) THEN c
    ELSE [c EXCEPT !.tok = c.savtok.tok, !.tokval = c.savtok.val,
                   !.toklen = c.savtok.len, !.idbuf = Over32(c.savtok.name, @)]

TBUF_RESET(c) == IF Halted(c) THEN c ELSE [c EXCEPT !.tbuf = <<>>, !.tbidx = 0]

TBUF_APPEND(c) ==
    IF Halted(c) THEN c
    ELSE IF Len(c.tbuf) >= 40 THEN FAIL(c)
    ELSE [c EXCEPT !.tbuf = Append(@, TokRec(c))]

\* REPLAY-EXPR that leaves SRCMODE at 1
REPLAY_EXPR_StaysInReplay(c) ==
    IF Halted(c) THEN c
    ELSE LET s == Call("NEXTTOK", [TOK_SAVE(c) EXCEPT !.srcmode = 1, !.tbidx = 0])
             x == CALL_EXPR(s)
             e == IF s.tok # 0 THEN <<x, RVAL(x)>>[2] ELSE s
         IN IF Halted(e) THEN e ELSE TOK_RESTORE(e)

REPLAY_EXPR(c) ==
    IF Halted(c) THEN c
    ELSE LET s == Call("NEXTTOK", [TOK_SAVE(c) EXCEPT !.srcmode = 1, !.tbidx = 0])
             x == CALL_EXPR(s)
             e == IF s.tok # 0 THEN <<x, RVAL(x)>>[2] ELSE s
         IN IF Halted(e) THEN e ELSE TOK_RESTORE([e EXCEPT !.srcmode = 0])

\* CALL-STMT: STMTXT holds the xt of STMT
CALL_STMT(c) == Call("STMT", c)

RECURSIVE BlockLoop(_)
BlockLoop(c) ==
    IF Halted(c) THEN c
    ELSE IF c.tok = 125 THEN EXPECT(c, 125)
    ELSE BlockLoop(CALL_STMT(c))

BLOCK(c) == BlockLoop(EXPECT(c, 123))

DECL(c) ==
    LET k == EXPECT(c, KW_INT)
        ptr == ~Halted(k) /\ k.tok = 42
        i == EXPECT_ID(IF ptr THEN EXPECT(k, 42) ELSE k)
    IN IF Halted(i) THEN i
       ELSE IF i.tok = 91 THEN
           LET m == EXPECT_NUM(EXPECT(i, 91))
               aux == m.n
               a == SYM_ADD(EXPECT(m, 93), 2, aux)
           IN <<m, a, EXPECT(a, 59)>>[3]
       ELSE EXPECT(SYM_ADD(i, IF ptr THEN 1 ELSE 0, 0), 59)

RETURN_STMT(c) ==
    LET k == EXPECT(c, KW_RETURN)
        e == CALL_EXPR(k)
        s == EXPECT(WANT_INT(e), 59)
    IN <<k, e, s, GEN_RETJMP(s)>>[4]

IF_STMT(c) ==
    LET o == EXPECT(EXPECT(c, KW_IF), 40)
        x == CALL_EXPR(o)
        e == EXPECT(WANT_INT(x), 41)
        l1 == NEWLBL(e)
        else == l1.n
        l2 == NEWLBL(l1)
        end == l2.n
        s == CALL_STMT(GEN_CBZ(l2, else))
        k == EXPECT(LBLDEF(GEN_B(s, end), else), KW_ELSE)
        t == CALL_STMT(k)
    IN IF Halted(<<o, x, e, s>>[4]) THEN s
       ELSE IF s.tok = KW_ELSE THEN <<k, t, LBLDEF(t, end)>>[3]
       ELSE LBLDEF(s, else)

WHILE_STMT(c) ==
    LET l1 == NEWLBL(EXPECT(c, KW_WHILE))
        start == l1.n
        l2 == NEWLBL(l1)
        end == l2.n
        o == EXPECT(LBLDEF(l2, start), 40)
        x == CALL_EXPR(o)
        e == EXPECT(WANT_INT(x), 41)
        s == CALL_STMT(GEN_CBZ(e, end))
    IN <<o, x, e, s, LBLDEF(GEN_B(s, start), end)>>[5]

\* the tokens up to the next ')' go to the token buffer
RECURSIVE BufferLoop(_)
BufferLoop(c) ==
    IF Halted(c) \/ c.tok = 41 THEN c
    ELSE BufferLoop(Call("NEXTTOK", TBUF_APPEND(c)))

FOR_STMT(c) ==
    LET ForInit(o) ==
            IF Halted(o) THEN o
            ELSE IF o.tok = 59 THEN EXPECT(o, 59)
            ELSE LET x == CALL_EXPR(o) IN <<x, EXPECT(RVAL(x), 59)>>[2]
        ForCond(t) ==
            IF Halted(t) THEN t
            ELSE IF t.tok = 59 THEN EXPECT(GEN_MOV_W0_IMM(t, 1), 59)
            ELSE LET y == CALL_EXPR(t) IN <<y, EXPECT(WANT_INT(y), 59)>>[2]
        ForUpdate(s) ==
            IF Halted(s) THEN s
            ELSE IF Len(s.tbuf) # 0 THEN REPLAY_EXPR(s) ELSE s
        ForBody(e, cond, end) ==
            LET b == BufferLoop(TBUF_RESET(GEN_CBZ(e, end)))
                p == EXPECT(b, 41)
                s == CALL_STMT(p)
                u == ForUpdate(s)
            IN <<b, p, s, u, LBLDEF(GEN_B(u, cond), end)>>[5]
        ForLabels(l1, l2) ==
            LET e == ForCond(LBLDEF(l2, l1.n))
            IN <<e, ForBody(e, l1.n, l2.n)>>[2]
        o == EXPECT(EXPECT(c, KW_FOR), 40)
        i == ForInit(o)
        l1 == NEWLBL(i)
    IN <<o, i, ForLabels(l1, NEWLBL(l1))>>[3]

EXPR_STMT(c) == LET e == CALL_EXPR(c) IN <<e, EXPECT(RVAL(e), 59)>>[2]

\* STMT that takes the end of the input for the end of the program
STMT_EofEnds(c) ==
    CASE Halted(c) -> c
      [] c.tok = 0 -> BYE(c)
      [] c.tok = 123 -> BLOCK(c)
      [] c.tok = KW_RETURN -> RETURN_STMT(c)
      [] c.tok = KW_IF -> IF_STMT(c)
      [] c.tok = KW_WHILE -> WHILE_STMT(c)
      [] c.tok = KW_FOR -> FOR_STMT(c)
      [] c.tok = KW_INT -> DECL(c)
      [] c.tok = 59 -> EXPECT(c, 59)
      [] OTHER -> EXPR_STMT(c)

STMT(c) ==
    CASE Halted(c) -> c
      [] c.tok = 123 -> BLOCK(c)
      [] c.tok = KW_RETURN -> RETURN_STMT(c)
      [] c.tok = KW_IF -> IF_STMT(c)
      [] c.tok = KW_WHILE -> WHILE_STMT(c)
      [] c.tok = KW_FOR -> FOR_STMT(c)
      [] c.tok = KW_INT -> DECL(c)
      [] c.tok = 59 -> EXPECT(c, 59)
      [] OTHER -> EXPR_STMT(c)

(* Functions and the translation unit *)

RECURSIVE ParamLoop(_, _)
ParamLoop(c, idx) ==
    IF Halted(c) THEN c
    ELSE LET More(s) ==
                 IF Halted(s) THEN s
                 ELSE IF s.tok = 44 THEN ParamLoop(EXPECT(s, 44), idx + 1)
                 ELSE s
             k == EXPECT(c, KW_INT)
             a == SYM_ADD(EXPECT_ID(k), 0, 0)
         IN <<k, a, More(GEN_STRW_X29(a, idx, a.n))>>[3]

PARAMS(c) ==
    LET Opened(o) ==
            IF Halted(o) THEN o
            ELSE IF o.tok = 41 THEN EXPECT(o, 41)
            ELSE LET p == ParamLoop(o, 0) IN <<p, EXPECT(p, 41)>>[2]
    IN Opened(EXPECT(c, 40))

\* FUNC up to the `{` of the body: the name, the return label, the header,
\* the prologue, the parameters, and BLOCK's `123 EXPECT`
FUNC_Begin(c) ==
    LET Opened(b) == IF Halted(b) THEN b ELSE [b EXCEPT !.pc = "body"]
        Body(p) == IF Halted(p) THEN p ELSE Opened(EXPECT(p, 123))
        Labelled(l) ==
            Body(PARAMS(GEN_PROLOGUE(GEN_HEADER([l EXCEPT !.retlbl = l.n]))))
        Named(f) == IF Halted(f) THEN f ELSE Labelled(NEWLBL(f))
        Typed(k) ==
            CASE Halted(k) -> k
              [] k.tok # TK_ID -> FAIL(k)
              [] OTHER -> Named(Call("NEXTTOK", [k EXCEPT !.fnbuf = IdBytes(k)]))
    IN Typed(EXPECT(SYM_INIT(c), KW_INT))

\* one turn of BLOCK's loop in the body of the function: a statement
FUNC_Stmt(c) == CALL_STMT(c)

\* FUNC from the `}` of the body: BLOCK's `125 EXPECT`, the default
\* return, the return label and the epilogue
FUNC_End(c) ==
    LET b == EXPECT(c, 125)
        d == GEN_RETJMP(GEN_MOV_W0_IMM(b, 0))
        z == GEN_EPILOGUE(LBLDEF(d, d.retlbl))
    IN CASE Halted(b) -> b
         [] Halted(z) -> z
         [] OTHER -> [z EXCEPT !.pc = "loop", !.marks = Append(@, Len(z.out))]

\* the state of a run when the VM has read the line `CC`
CCLoaded(src) ==
    [src |-> src, pos |-> 0, ungetn |-> 0, unget0 |-> 0, unget1 |-> 0,
     tok |-> 0, tokval |-> 0, toklen |-> 0, idbuf |-> <<>>,
     fnbuf |-> <<>>, callbuf |-> <<>>, calleebuf |-> <<>>,
     symtab |-> <<>>, locoff |-> 0, retlbl |-> 0, lblcount |-> 0,
     srcmode |-> 0, tbuf |-> <<>>, tbidx |-> 0,
     savtok |-> [tok |-> 0, val |-> 0, len |-> 0, name |-> <<>>],
     out |-> <<>>, pc |-> "init", exit |-> -1,
     ch |-> 0, ty |-> 0, n |-> 0, errpos |-> -1, marks |-> <<>>,
     ungetmax |-> 0, ungetdrops |-> 0]

\* CC up to its loop
CC_Begin(c) ==
    Call("NEXTTOK", [c EXCEPT !.ungetn = 0, !.lblcount = 0, !.srcmode = 0, !.pc = "loop"])

Call(w, c) ==
    CASE w = "NEXTTOK" -> NEXTTOK(c)
      [] w = "EXPR" -> EXPR(c)
      [] w = "STMT" -> STMT(c)
      [] w = "PRIMARY" -> PRIMARY(c)
      [] w = "UNARY" -> UNARY(c)
      [] w = "MulLoop" -> MulLoop(c)
      [] w = "AddLoop" -> AddLoop(c)
      [] w = "RelLoop" -> RelLoop(c)
      [] w = "MUL" -> MUL(c)
      [] w = "ADD" -> ADD(c)
      [] w = "REL" -> REL(c)
      [] w = "EQ" -> EQ(c)
      [] w = "CC_Begin" -> CC_Begin(c)
      [] w = "FUNC_Begin" -> FUNC_Begin(c)
      [] w = "FUNC_Stmt" -> FUNC_Stmt(c)
      [] w = "FUNC_End" -> FUNC_End(c)

\* CC (cc.fth 1151-1161) and FUNC, one step per turn of a loop: CC's
\* BEGIN..AGAIN over the functions, BLOCK's over the statements of a
\* function's body.  The runs of cc are independent processes; i names one.
CCStart(i) ==
    /\ i \in DOMAIN cc /\ cc[i].pc = "init"
    /\ cc' = [cc EXCEPT ![i] = Call("CC_Begin", @)]
    /\ UNCHANGED <<run, cprog, lvars, fvars>>

\* TOK is not 0: FUNC begins to compile a function
CCFunc(i) ==
    /\ i \in DOMAIN cc /\ cc[i].pc = "loop" /\ cc[i].tok # 0
    /\ cc' = [cc EXCEPT ![i] = Call("FUNC_Begin", @)]
    /\ UNCHANGED <<run, cprog, lvars, fvars>>

\* TOK is not '}': a statement of the body
CCStmt(i) ==
    /\ i \in DOMAIN cc /\ cc[i].pc = "body" /\ cc[i].tok # 125
    /\ cc' = [cc EXCEPT ![i] = Call("FUNC_Stmt", @)]
    /\ UNCHANGED <<run, cprog, lvars, fvars>>

\* TOK is '}': the function ends
CCFuncEnd(i) ==
    /\ i \in DOMAIN cc /\ cc[i].pc = "body" /\ cc[i].tok = 125
    /\ cc' = [cc EXCEPT ![i] = Call("FUNC_End", @)]
    /\ UNCHANGED <<run, cprog, lvars, fvars>>

\* TOK is 0, the end of the input: BYE
CCEnd(i) ==
    /\ i \in DOMAIN cc /\ cc[i].pc = "loop" /\ cc[i].tok = 0
    /\ cc' = [cc EXCEPT ![i] = BYE(@)]
    /\ UNCHANGED <<run, cprog, lvars, fvars>>

-----------------------------------------------------------------------------
(* X. The emitted code at run time.  Of the machine only the stack pointer, *)
(* the frame pointer and the saved frame records are kept: sp and x29 are   *)
(* byte offsets from the stack pointer at function entry, saved maps the    *)
(* address of a frame record to the x29 stored there.  A `cbz` goes either  *)
(* way; a `bl` returns with sp and x29 as they were (the calling            *)
(* convention of the platform).  regs holds w0..w7 and mem the words the    *)
(* code has pushed, as far as they are constants or results of calls.       *)

HexDigitVal(ch) == IF ch < 58 THEN ch - 48 ELSE ch - 87

RECURSIVE HexVal(_)
HexVal(ds) ==
    IF ds = <<>> THEN 0
    ELSE 16 * HexVal(SubSeq(ds, 1, Len(ds) - 1)) + HexDigitVal(ds[Len(ds)])

\* x29 of the caller, as an offset from the entry stack pointer
CallerFP == 4 * 16
\* what a load from a slot that holds no frame record yields
Garbage == 0 - 1

\* the line that defines the label a branch names
LabelLine(out, ds) ==
    LET hits == { k \in 1..Len(out) : out[k].t = ".L%i:" /\ out[k].i = ds } IN
    IF hits = {} THEN 0 ELSE CHOOSE k \in hits : TRUE

Without(f, a) == [x \in DOMAIN f \ {a} |-> f[x]]

\* a value the machine does not follow, and the value a call returns in w0
Unknown == 0 - 1
CallResult == 0 - 2

\* the word at stack address a
Load(r, a) == IF a \in DOMAIN r.mem THEN r.mem[a] ELSE Unknown

\* the instructions that compute w0 (x0) from other registers or from memory
WritesW0 ==
    {"  add w0, w1, w0", "  add x0, x1, x0", "  sub w0, w1, w0",
     "  mul w0, w1, w0", "  sdiv w0, w1, w0", "  msub w0, w2, w0, w1",
     "  neg w0, w0", "  lsl w0, w0, #2", "  sxtw x0, w0",
     "  ldr w0, [x0]", "  ldr x0, [x0]", "  sub x0, x29, #0x%i",
     "  cset w0, eq", "  cset w0, ne", "  cset w0, lt", "  cset w0, le",
     "  cset w0, gt", "  cset w0, ge"}

\* the effect of one emitted line on the machine
Exec(r, l) ==
    LET next == [r EXCEPT !.pc = @ + 1] IN
    IF l.t = "  stp x29, x30, [sp, #-16]!"
    THEN [next EXCEPT !.sp = r.sp - 16,
                      !.saved = ((r.sp - 16) :> r.x29) @@ Without(@, r.sp - 16),
                      !.mem = Without(@, r.sp - 16)]
    ELSE IF l.t = "  mov x29, sp" THEN [next EXCEPT !.x29 = r.sp]
    ELSE IF l.t = "  sub sp, sp, #0x%i" THEN [next EXCEPT !.sp = r.sp - HexVal(l.i)]
    ELSE IF l.t \in {"  str w0, [sp, #-16]!", "  str x0, [sp, #-16]!"}
    THEN [next EXCEPT !.sp = r.sp - 16, !.saved = Without(@, r.sp - 16),
                      !.mem = ((r.sp - 16) :> r.regs[0]) @@ Without(@, r.sp - 16)]
    ELSE IF l.t \in {"  ldr w1, [sp], #16", "  ldr x1, [sp], #16"}
    THEN [next EXCEPT !.sp = r.sp + 16, !.regs[1] = Load(r, r.sp)]
    ELSE IF l.t = "  ldr w%r, [sp], #16"
    THEN [next EXCEPT !.sp = r.sp + 16, !.regs[l.r - 48] = Load(r, r.sp)]
    ELSE IF l.t = "  mov w0, #0x%i" THEN [next EXCEPT !.regs[0] = HexVal(l.i)]
    ELSE IF l.t = "  bl _%n"
    THEN [next EXCEPT !.regs = [k \in 0..7 |-> IF k = 0 THEN CallResult ELSE Unknown]]
    ELSE IF l.t \in WritesW0 THEN [next EXCEPT !.regs[0] = Unknown]
    ELSE IF l.t = "  sdiv w2, w1, w0" THEN [next EXCEPT !.regs[2] = Unknown]
    ELSE IF l.t = "  mov sp, x29" THEN [next EXCEPT !.sp = r.x29]
    ELSE IF l.t = "  ldp x29, x30, [sp], #16"
    THEN [next EXCEPT !.sp = r.sp + 16,
                      !.x29 = IF r.sp \in DOMAIN r.saved THEN r.saved[r.sp]
                              ELSE Garbage]
    ELSE IF l.t = "  ret" THEN [r EXCEPT !.at = "ret"]
    ELSE next

\* where a branch on line l goes: 0 when the label is not defined
Target(out, l) == LabelLine(out, l.i)

\* the compiler has ended cleanly: a caller enters one of its functions
RunEnter ==
    /\ run = NoRun /\ Len(cc) = 1
    /\ cc[1].pc = "halt" /\ cc[1].errpos = -1
    /\ \E k \in 1..Len(cc[1].out) :
          /\ cc[1].out[k].t = "_%n:"
          /\ run' = [at |-> "code", entry |-> k, pc |-> k + 1, sp |-> 0,
                     x29 |-> CallerFP, saved |-> <<>>, from |-> 0,
                     regs |-> [r \in 0..7 |-> Unknown], mem |-> <<>>]
    /\ UNCHANGED <<cc, cprog, lvars, fvars>>

\* one instruction that is not a branch
RunStep ==
    /\ run.at = "code" /\ run.pc \in 1..Len(cc[1].out)
    /\ cc[1].out[run.pc].t \notin {"  b .L%i", "  cbz w0, .L%i"}
    /\ run' = Exec(run, cc[1].out[run.pc])
    /\ UNCHANGED <<cc, cprog, lvars, fvars>>

\* b, and cbz when w0 is zero
RunBranch ==
    /\ run.at = "code" /\ run.pc \in 1..Len(cc[1].out)
    /\ cc[1].out[run.pc].t \in {"  b .L%i", "  cbz w0, .L%i"}
    /\ LET t == Target(cc[1].out, cc[1].out[run.pc]) IN
       run' = IF t = 0 THEN [run EXCEPT !.at = "fault"]
              ELSE [run EXCEPT !.pc = t, !.from = run.pc]
    /\ UNCHANGED <<cc, cprog, lvars, fvars>>

\* cbz when w0 is not zero
RunFallThrough ==
    /\ run.at = "code" /\ run.pc \in 1..Len(cc[1].out)
    /\ cc[1].out[run.pc].t = "  cbz w0, .L%i"
    /\ run' = [run EXCEPT !.pc = @ + 1]
    /\ UNCHANGED <<cc, cprog, lvars, fvars>>

\* the function has returned; the caller goes on
RunReturn ==
    /\ run.at = "ret"
    /\ run' = NoRun
    /\ UNCHANGED <<cc, cprog, lvars, fvars>>

-----------------------------------------------------------------------------
(* The C sources the compiler is run on.  A source is written as a         *)
(* sequence of lexemes; Src turns it into the bytes of stdin.               *)

Lex ==
    ("int" :> <<105, 110, 116>>)
    @@ ("return" :> <<114, 101, 116, 117, 114, 110>>)
    @@ ("if" :> <<105, 102>>)
    @@ ("else" :> <<101, 108, 115, 101>>)
    @@ ("while" :> <<119, 104, 105, 108, 101>>)
    @@ ("for" :> <<102, 111, 114>>)
    @@ ("f" :> <<102>>)
    @@ ("g" :> <<103>>)
    @@ ("main" :> <<109, 97, 105, 110>>)
    @@ ("x" :> <<120>>)
    @@ ("y" :> <<121>>)
    @@ ("p" :> <<112>>)
    @@ ("q" :> <<113>>)
    @@ ("a" :> <<97>>)
    @@ ("i" :> <<105>>)
    @@ ("s" :> <<115>>)
    @@ ("n" :> <<110>>)
    @@ ("0" :> <<48>>)
    @@ ("1" :> <<49>>)
    @@ ("2" :> <<50>>)
    @@ ("3" :> <<51>>)
    @@ ("42" :> <<52, 50>>)
    @@ (" " :> <<32>>)
    @@ ("\n" :> <<10>>)
    @@ ("(" :> <<40>>)
    @@ (")" :> <<41>>)
    @@ ("{" :> <<123>>)
    @@ ("}" :> <<125>>)
    @@ ("[" :> <<91>>)
    @@ ("]" :> <<93>>)
    @@ (";" :> <<59>>)
    @@ ("," :> <<44>>)
    @@ ("=" :> <<61>>)
    @@ ("+" :> <<43>>)
    @@ ("-" :> <<45>>)
    @@ ("*" :> <<42>>)
    @@ ("/" :> <<47>>)
    @@ ("%" :> <<37>>)
    @@ ("&" :> <<38>>)
    @@ ("<" :> <<60>>)
    @@ (">" :> <<62>>)
    @@ ("!" :> <<33>>)
    @@ ("==" :> <<61, 61>>)
    @@ ("!=" :> <<33, 61>>)
    @@ ("<=" :> <<60, 61>>)
    @@ (">=" :> <<62, 61>>)
    @@ ("// c\n" :> <<47, 47, 32, 99, 10>>)
    @@ ("/* c */" :> <<47, 42, 32, 99, 32, 42, 47>>)
    @@ ("Int" :> <<73, 110, 116>>)

RECURSIVE Src(_)
Src(ls) ==
    IF Len(ls) = 0 THEN <<>>
    ELSE IF Len(ls) = 1 THEN Lex[ls[1]]
    ELSE LET h == Len(ls) \div 2 IN
         Src(SubSeq(ls, 1, h)) \o Src(SubSeq(ls, h + 1, Len(ls)))

\* int f(){ body }
Fn(name, body) == <<"int", " ", name, "(", ")", "{">> \o body \o <<"}">>

Ret(e) == <<"return", " ">> \o e \o <<";">>

\* sources with no compile error
GoodSources ==
    { <<>>,
      <<" ", "// c\n", "/* c */", "\n">>,
      Fn("f", Ret(<<"1">>)),
      Fn("main", Ret(<<"42">>)) \o <<"\n">> \o Fn("f", <<>>),
      <<"int", " ", "f", "(", "int", " ", "x", ",", "int", " ", "y", ")", "{">>
          \o Ret(<<"x", "+", "y", "*", "2", "-", "x", "/", "y", "%", "3">>) \o <<"}">>,
      <<"Int", " ", "f", "(", "int", " ", "n", ")", "{",
        "if", "(", "n", "<", "1", ")">> \o Ret(<<"0">>) \o Ret(<<"1">>) \o <<"}">>,
      <<"int", " ", "f", "(", "int", " ", "n", ")", "{",
        "int", " ", "i", ";", "i", "=", "0", ";",
        "while", "(", "i", "<", "n", ")", "{",
        "if", "(", "i", "==", "3", ")", "{">> \o Ret(<<"i", "+", "(", "n", "*", "2", ")">>)
          \o <<"}", "else", " ", "i", "=", "i", "+", "1", ";", "}">>
          \o Ret(<<"n">>) \o <<"}">>,
      Fn("f", <<"int", " ", "i", ";", "int", " ", "s", ";", "s", "=", "0", ";",
               "for", "(", "i", "=", "0", ";", "i", "<=", "3", ";",
               "i", "=", "i", "+", "1", ")", "{",
               "if", "(", "s", ">", "2", ")">> \o Ret(<<"s">>)
               \o <<"s", "=", "s", "+", "i", ";", "}">> \o Ret(<<"-", "s">>)),
      Fn("main", <<"int", " ", "a", "[", "3", "]", ";",
                  "a", "[", "0", "]", "=", "1", ";",
                  "a", "[", "1", "]", "=", "2", ";",
                  "int", " ", "*", "p", ";",
                  "p", "=", "&", "a", "[", "1", "]", ";">>
                  \o Ret(<<"*", "p", "+", "a", "[", "0", "]">>)),
      <<"int", " ", "f", "(", "int", " ", "x", ")", "{",
        "if", "(", "x", "!=", "0", ")">>
          \o Ret(<<"g", "(", "x", ",", "1", ")", "+", "f", "(", "x", "-", "1", ")">>)
          \o <<"}">>,
      Fn("f", <<"int", " ", "x", ";", "x", "=", "1", ";",
               "while", "(", "x", ">=", "0", ")", "x", "=", "x", "-", "1", ";">>)
    }

\* sources with a compile error
BadSources ==
    { Fn("f", <<"return", " ", ";">>),
      Fn("f", <<"x", "=", "1", ";">>),
      Fn("f", <<"1", "=", "2", ";">>),
      Fn("f", <<"int", " ", "x", ";", "x", "!", "1", ";">>),
      Fn("f", <<"int", " ", "x", ";">> \o Ret(<<"&", "x">>)),
      Fn("f", Ret(<<"1">>)) \o Fn("g", <<"return", " ", "1">>),
      Fn("f", <<"return", " ", ";">>) \o Fn("g", Ret(<<"1">>)),
      Fn("f", <<"int", " ", "x", ";", "for", "(", ";", ";", "x", "=", "1">>),
      <<"int", " ", "f", "(", ")", "{", "return", " ", "1", ";">>,
      <<"f", "(", ")", "{", "}">>
    }

\* the same text twice in one input; nfun is the number of functions in it
TwiceTexts ==
    { [text |-> Fn("f", Ret(<<"1">>)), nfun |-> 1],
      [text |-> Fn("main", Ret(<<"42">>)) \o <<"\n">> \o Fn("f", <<>>), nfun |-> 2],
      [text |-> Fn("f", <<"int", " ", "x", ";", "x", "=", "1", ";",
                          "while", "(", "x", ">=", "0", ")",
                          "if", "(", "x", "==", "2", ")", "x", "=", "0", ";",
                          "else", " ", "x", "=", "x", "-", "1", ";">>), nfun |-> 1] }

\* an lvalue x in a use, and *&x in the same use
LvDecls ==
    <<"int", " ", "x", ";", "int", " ", "y", ";", "int", " ", "*", "p", ";",
      "int", " ", "*", "q", ";", "int", " ", "a", "[", "2", "]", ";",
      "p", "=", "&", "y", ";">>

Lvalues ==
    { [e |-> <<"x">>, base |-> "int"],
      [e |-> <<"a", "[", "1", "]">>, base |-> "int"],
      [e |-> <<"(", "*", "p", ")">>, base |-> "int"],
      [e |-> <<"(", "x", ")">>, base |-> "int"],
      [e |-> <<"p">>, base |-> "ptr"],
      [e |-> <<"(", "q", ")">>, base |-> "ptr"] }

Uses == {"read", "value", "assign int", "assign ptr", "address"}

UseOf(u, e) ==
    IF u = "read" THEN Ret(e)
    ELSE IF u = "value" THEN e \o <<";">>
    ELSE IF u = "assign int" THEN e \o <<"=", "y", "+", "1", ";">>
    ELSE IF u = "assign ptr" THEN e \o <<"=", "&", "y", ";">>
    ELSE <<"q", "=", "&">> \o e \o <<";">>

\* for (init; cond; update) body, and init; while (cond) { body update; }
Updates ==
    { <<>>,
      <<"i", "=", "i", "+", "1">>,
      <<"s", "=", "s", "+", "i", "*", "2">>,
      <<"i", "=", "(", "i", "+", "1", ")">>,
      <<"i", "=", "g", "(", "i", ")">> }

Bodies == { <<";">>, <<"s", "=", "s", "+", "i", ";">>,
            <<"{", "if", "(", "s", ">", "2", ")">> \o Ret(<<"s">>) \o <<"}">> }

ForDecls == <<"int", " ", "i", ";", "int", " ", "s", ";", "s", "=", "0", ";">>

ForText(u, b) ==
    Fn("f", ForDecls \o <<"for", "(", "i", "=", "0", ";", "i", "<", "3", ";">>
            \o u \o <<")">> \o b \o Ret(<<"s">>))

WhileText(u, b) ==
    Fn("f", ForDecls \o <<"i", "=", "0", ";", "while", "(", "i", "<", "3", ")", "{">>
            \o b \o (IF u = <<>> THEN <<>> ELSE u \o <<";">>) \o <<"}">>
            \o Ret(<<"s">>))

\* an update clause of n tokens, n >= 3: s = s + 1 + 1 ... for odd n,
\* s = - s + 1 + 1 ... for even n
RECURSIVE PlusOnes(_)
PlusOnes(k) == IF k = 0 THEN <<>> ELSE <<"+", "1">> \o PlusOnes(k - 1)
LongUpdate(n) ==
    IF n % 2 = 1 THEN <<"s", "=", "s">> \o PlusOnes((n - 3) \div 2)
    ELSE <<"s", "=", "-", "s">> \o PlusOnes((n - 4) \div 2)

\* int f(){int x[42]; ... int s; return 0;} with k arrays of 42 ints, 168
\* bytes each, and one int
ArrayNames == <<"x", "y", "p", "q">>
RECURSIVE ArrayDecls(_)
ArrayDecls(k) ==
    IF k = 0 THEN <<>>
    ELSE ArrayDecls(k - 1) \o <<"int", " ", ArrayNames[k], "[", "42", "]", ";">>
FrameText(k) == Fn("f", ArrayDecls(k) \o <<"int", " ", "s", ";">> \o Ret(<<"0">>))

\* numbers of arrays: frames of 176, 512 and 680 bytes
ArrayCounts == {1, 3, 4}

\* an identifier of n letters
LongName(n) == [k \in 1..n |-> 97]

\* lengths around the sizes of the name field of a record and of FNBUF
IdLengths == {31, 32, 33, 64, 65}

\* the identifier as a local variable, as the name of a function, as a callee
LongIdText(role, n) ==
    CASE role = "var" ->
            Src(<<"int", " ", "f", "(", ")", "{", "int", " ">>) \o LongName(n)
            \o Src(<<";">>) \o LongName(n) \o Src(<<"=", "1", ";", "return", " ">>)
            \o LongName(n) \o Src(<<";", "}">>)
      [] role = "func" ->
            Src(<<"int", " ">>) \o LongName(n)
            \o Src(<<"(", ")", "{", "return", " ", "0", ";", "}">>)
      [] OTHER ->
            Src(<<"int", " ", "f", "(", ")", "{", "return", " ">>) \o LongName(n)
            \o Src(<<"(", ")", ";", "}">>)

\* update clauses that are an expression followed by more tokens
LeftoverUpdates ==
    { <<"i", "=", "i", "+", "1", " ", "s">>,
      <<"i", "=", "i", "+", "1", " ", "2", " ", "3">>,
      <<"i", "=", "i", "+", "1", ";", "s", "=", "2">> }

\* lengths around the capacity of the token buffer
LongLengths == {39, 40, 41, 42}

\* statements nested in a for loop, and the same with every for loop written
\* as init; while (cond) { body update; }
ForHead(v, n) ==
    <<"for", "(", v, "=", "0", ";", v, "<", n, ";", v, "=", v, "+", "1", ")">>
WhileHead(v, n) == <<v, "=", "0", ";", "while", "(", v, "<", n, ")", "{">>
WhileTail(v) == <<v, "=", v, "+", "1", ";", "}">>
NestDecls == ForDecls \o <<"int", " ", "x", ";">>
IfInWhile ==
    <<"while", "(", "s", "<", "2", ")", "if", "(", "s", "==", "1", ")",
      "s", "=", "2", ";", "else", " ", "s", "=", "s", "+", "1", ";">>

Nests ==
    { [inner |-> "if in while",
       for |-> ForHead("i", "3") \o IfInWhile,
       while |-> WhileHead("i", "3") \o IfInWhile \o WhileTail("i")],
      [inner |-> "for",
       for |-> ForHead("i", "3") \o ForHead("x", "2") \o <<"s", "=", "s", "+", "x", ";">>,
       while |-> WhileHead("i", "3") \o WhileHead("x", "2")
                 \o <<"s", "=", "s", "+", "x", ";">> \o WhileTail("x") \o WhileTail("i")],
      [inner |-> "for without update",
       for |-> ForHead("i", "3")
               \o <<"for", "(", "x", "=", "0", ";", "x", "<", "2", ";", ")",
                    "x", "=", "x", "+", "1", ";">>,
       while |-> WhileHead("i", "3")
                 \o <<"x", "=", "0", ";", "while", "(", "x", "<", "2", ")", "{",
                      "x", "=", "x", "+", "1", ";", "}">> \o WhileTail("i")] }

\* calls in a return statement; callees names the functions called, in the
\* order in which the calls are made (the arguments of a call before it)
CallText(e) == <<"int", " ", "f", "(", "int", " ", "x", ")", "{">> \o Ret(e) \o <<"}">>

Calls ==
    { [e |-> <<"g", "(", "x", ",", "1", ")", "+", "f", "(", "x", "-", "1", ")">>,
       nested |-> FALSE, callees |-> <<"g", "f">>],
      [e |-> <<"main", "(", ")">>, nested |-> FALSE, callees |-> <<"main">>],
      [e |-> <<"f", "(", "g", "(", "x", ")", ")">>,
       nested |-> TRUE, callees |-> <<"g", "f">>],
      [e |-> <<"f", "(", "x", ",", "g", "(", "1", ")", ",", "2", ")">>,
       nested |-> TRUE, callees |-> <<"g", "f">>],
      [e |-> <<"main", "(", "f", "(", "g", "(", ")", ")", ",", "x", ")">>,
       nested |-> TRUE, callees |-> <<"g", "f", "main">>] }

\* a call g(...) in a return statement; vals are the values of the
\* arguments, in source order
RECURSIVE Commas(_)
Commas(as) ==
    IF Len(as) = 0 THEN <<>>
    ELSE IF Len(as) = 1 THEN as[1]
    ELSE Commas(SubSeq(as, 1, Len(as) - 1)) \o <<",">> \o as[Len(as)]

CallOf(name, as) == <<name, "(">> \o Commas(as) \o <<")">>

\* int f(int x, int y, ...){return 0;} with n parameters
ParamNames == <<"x", "y", "p", "q", "a", "i", "s", "n", "g", "main">>
ParamList(n) == Commas([k \in 1..n |-> <<"int", " ", ParamNames[k]>>])
ParamText(n) ==
    <<"int", " ", "f", "(">> \o ParamList(n) \o <<")", "{">> \o Ret(<<"0">>) \o <<"}">>

\* numbers of parameters around the number of argument registers
ParamCounts == {0, 1, 7, 8, 9, 10}

ArgLists ==
    { [e |-> CallOf("g", <<>>), vals |-> <<>>],
      [e |-> CallOf("g", <<<<"3">>>>), vals |-> <<3>>],
      [e |-> CallOf("g", <<<<"1">>, <<"2">>, <<"3">>>>), vals |-> <<1, 2, 3>>],
      [e |-> CallOf("g", <<<<"1">>, CallOf("f", <<<<"2">>, <<"0">>>>), <<"3">>>>),
       vals |-> <<1, CallResult, 3>>],
      [e |-> CallOf("g", <<<<"1">>, <<"2">>, <<"3">>, <<"42">>,
                            <<"0">>, <<"1">>, <<"3">>, <<"2">>>>),
       vals |-> <<1, 2, 3, 42, 0, 1, 3, 2>>],
      [e |-> CallOf("g", <<<<"1">>, <<"2">>, <<"3">>, <<"42">>, <<"0">>,
                            <<"1">>, <<"3">>, <<"2">>, <<"1">>>>),
       vals |-> <<1, 2, 3, 42, 0, 1, 3, 2, 1>>] }

\* a reference to x in a return statement; off is the frame offset of the
\* declaration of x that precedes the reference most closely, 0 when the
\* function declares no x
IntDecl(v) == <<"int", " ", v, ";">>

SymTexts ==
    { [text |-> Fn("f", IntDecl("x") \o IntDecl("y") \o Ret(<<"x">>)),
       off |-> 8, redecl |-> FALSE],
      [text |-> Fn("f", IntDecl("y") \o IntDecl("x") \o Ret(<<"x">>)),
       off |-> 16, redecl |-> FALSE],
      [text |-> Fn("f", IntDecl("x") \o IntDecl("y") \o <<"{">> \o IntDecl("x")
                        \o Ret(<<"x">>) \o <<"}">>),
       off |-> 24, redecl |-> TRUE],
      [text |-> <<"int", " ", "f", "(", "int", " ", "x", ")", "{">>
                \o IntDecl("x") \o Ret(<<"x">>) \o <<"}">>,
       off |-> 16, redecl |-> TRUE],
      [text |-> Fn("g", IntDecl("x") \o Ret(<<"x">>))
                \o Fn("f", IntDecl("y") \o Ret(<<"x">>)),
       off |-> 0, redecl |-> FALSE] }

\* sources that end while a brace or a parenthesis is open; open names what
\* was opened last
Head_f == <<"int", " ", "f", "(", ")", "{">>

Truncated ==
    { [text |-> Head_f, open |-> "body"],
      [text |-> Head_f \o Ret(<<"1">>), open |-> "body"],
      [text |-> Head_f \o IntDecl("x") \o <<"{", "x", "=", "1", ";">>, open |-> "body"],
      [text |-> Head_f \o IntDecl("x") \o <<"while", "(", "x", ")", "{">>, open |-> "body"],
      [text |-> Head_f \o <<"return", " ", "(", "1", "+", "2">>, open |-> "paren"],
      [text |-> Head_f \o <<"return", " ", "(">>, open |-> "paren"],
      [text |-> Head_f \o IntDecl("x") \o <<"if", "(", "x", "<", "1">>, open |-> "paren"],
      [text |-> Head_f \o <<"return", " ", "g", "(", "1", ",", "2">>, open |-> "args"],
      [text |-> Head_f \o <<"return", " ", "g", "(">>, open |-> "args"],
      [text |-> Head_f \o <<"return", " ", "g", "(", "1", ",">>, open |-> "args"],
      [text |-> Head_f \o IntDecl("x") \o <<"for", "(">>, open |-> "for"],
      [text |-> Head_f \o IntDecl("x") \o <<"for", "(", "x", "=", "0", ";", "x", "<", "1">>,
       open |-> "for"],
      [text |-> Head_f \o IntDecl("x")
                \o <<"for", "(", "x", "=", "0", ";", "x", "<", "1", ";", "x", "=", "x", "+", "1">>,
       open |-> "for"],
      [text |-> Head_f \o IntDecl("x") \o <<"for", "(", ";", ";">>, open |-> "for"] }

CPrograms ==
    { [kind |-> "plain", bad |-> FALSE, srcs |-> <<Src(t)>>] : t \in GoodSources }
    \cup { [kind |-> "trunc", open |-> t.open, srcs |-> <<Src(t.text)>>]
           : t \in Truncated }
    \cup { [kind |-> "plain", bad |-> TRUE, srcs |-> <<Src(t)>>] : t \in BadSources }
    \cup { [kind |-> "twice", nfun |-> t.nfun, srcs |-> <<Src(t.text \o t.text)>>]
           : t \in TwiceTexts }
    \cup { [kind |-> "lvalue", base |-> l.base, use |-> u, e |-> l.e,
            srcs |-> <<Src(Fn("f", LvDecls \o UseOf(u, l.e))),
                       Src(Fn("f", LvDecls \o UseOf(u, <<"*", "&">> \o l.e)))>>]
           : l \in Lvalues, u \in Uses }
    \cup { [kind |-> "for", upd |-> u, body |-> b,
            srcs |-> <<Src(ForText(u, b)), Src(WhileText(u, b))>>]
           : u \in Updates, b \in Bodies }
    \cup { [kind |-> "call", nested |-> t.nested, callees |-> t.callees,
            srcs |-> <<Src(CallText(t.e))>>] : t \in Calls }
    \cup { [kind |-> "args", vals |-> t.vals,
            srcs |-> <<Src(Fn("f", Ret(t.e)))>>] : t \in ArgLists }
    \cup { [kind |-> "sym", off |-> t.off, redecl |-> t.redecl,
            srcs |-> <<Src(t.text)>>] : t \in SymTexts }
    \cup { [kind |-> "params", n |-> n, srcs |-> <<Src(ParamText(n))>>]
           : n \in ParamCounts }
    \cup { [kind |-> "frame", bytes |-> 168 * k + 8, srcs |-> <<Src(FrameText(k))>>]
           : k \in ArrayCounts }
    \cup { [kind |-> "longid", role |-> r, n |-> n, srcs |-> <<LongIdText(r, n)>>]
           : r \in {"var", "func", "call"}, n \in IdLengths }
    \cup { [kind |-> "leftover", upd |-> u, srcs |-> <<Src(ForText(u, <<";">>))>>]
           : u \in LeftoverUpdates }
    \cup { [kind |-> "longfor", n |-> n,
            srcs |-> <<Src(ForText(LongUpdate(n), <<";">>)),
                       Src(WhileText(LongUpdate(n), <<";">>))>>]
           : n \in LongLengths }
    \cup { [kind |-> "nest", inner |-> n.inner,
            srcs |-> <<Src(Fn("f", NestDecls \o n.for \o Ret(<<"s">>))),
                       Src(Fn("f", NestDecls \o n.while \o Ret(<<"s">>)))>>]
           : n \in Nests }

CInit ==
    /\ cprog \in CPrograms
    /\ cc = [i \in 1..Len(cprog.srcs) |-> CCLoaded(cprog.srcs[i])]
    /\ run = NoRun
    /\ vm = NoVM /\ vmD = NoVM /\ fprog = NoProgram
    /\ LoaderIdle

CNext ==
    \/ \E i \in 1..2 : CCStart(i)
    \/ \E i \in 1..2 : CCFunc(i)
    \/ \E i \in 1..2 : CCStmt(i)
    \/ \E i \in 1..2 : CCFuncEnd(i)
    \/ \E i \in 1..2 : CCEnd(i)
    \/ RunEnter
    \/ RunStep
    \/ RunBranch
    \/ RunFallThrough
    \/ RunReturn

SpecCC == CInit /\ [][CNext]_vars

-----------------------------------------------------------------------------
(* Claims about the compiler *)

\* C5: for every function the compiler emits, on every path that reaches
\* `ret` (an explicit `return` at any nesting depth or the fall-through
\* default return) the stack pointer equals its value at function entry,
\* which is offset 0.
C5_FrameDiscipline == run.at = "ret" => run.sp = 0

\* a `ret` reached from an explicit `return`: the branch taken last is not
\* the one of the default return, which stands right before the return label
C5_Witness ==
    /\ run.at = "ret"
    /\ run.from > 0 /\ run.from < run.pc - 4
    /\ cc[1].out[run.from].t = "  b .L%i"
    /\ \E k \in run.entry..run.from : cc[1].out[k].t = "  cbz w0, .L%i"

\* both runs of the compiler have ended
BothHalted == Len(cc) = 2 /\ Halted(cc[1]) /\ Halted(cc[2])

\* C6: for any lvalue expression x, of int or of pointer type, `*&x` equals
\* x: put in the same use (read, assigned to, its address taken), x and
\* `*&x` compile to the same code, and one is accepted exactly when the
\* other is.
C6_LvalueLaw ==
    (cprog.kind = "lvalue" /\ BothHalted)
        => /\ cc[1].out = cc[2].out
           /\ (cc[1].errpos = -1) <=> (cc[2].errpos = -1)

\* the text was given twice and compiled without error
TwiceDone ==
    /\ cprog.kind = "twice" /\ Halted(cc[1]) /\ cc[1].errpos = -1
    /\ Len(cc[1].marks) = 2 * cprog.nfun

\* the output of the first and of the second copy of the text
FirstCopy == SubSeq(cc[1].out, 1, cc[1].marks[cprog.nfun])
SecondCopy ==
    SubSeq(cc[1].out, cc[1].marks[cprog.nfun] + 1, cc[1].marks[2 * cprog.nfun])

\* the lines that carry a label number
LabelTemplates == {".L%i:", "  b .L%i", "  cbz w0, .L%i"}

\* line m is line l with its label number, if it has one, increased by k
ShiftedBy(l, m, k) ==
    /\ m.t = l.t /\ m.r = l.r /\ m.n = l.n
    /\ IF l.t \in LabelTemplates THEN HexVal(m.i) = HexVal(l.i) + k
       ELSE m.i = l.i

\* C7 as stated: the second copy of the text compiles to the same label
\* numbers and the same assembly text as the first.
C7_SameLabels == TwiceDone => SecondCopy = FirstCopy

\* C7, amended: the second copy compiles to the text of the first with every
\* label number increased by the number of labels allocated for the first
\* copy, and no label is defined twice in the output.
C7_ShiftedLabels ==
    TwiceDone =>
        /\ Len(SecondCopy) = Len(FirstCopy)
        /\ \A k \in 1..Len(FirstCopy) :
              ShiftedBy(FirstCopy[k], SecondCopy[k], cc[1].lblcount \div 2)
        /\ \A j, k \in 1..Len(cc[1].out) :
              (cc[1].out[j].t = ".L%i:" /\ cc[1].out[k] = cc[1].out[j]) => j = k

\* the text has a loop and a conditional with an else: five labels a copy
C7_Witness == TwiceDone /\ cc[1].lblcount = 10

\* the lines of an output that define a label, and those that branch to one
LabelDefs(out) == { k \in 1..Len(out) : out[k].t = ".L%i:" }
Branches(out)  == { k \in 1..Len(out) : out[k].t \in {"  b .L%i", "  cbz w0, .L%i"} }

\* C32: label numbers come from the counter: every number in the output is
\* below the counter, no two label definitions of a run carry the same
\* number, and when the compilation has ended without error every label
\* that a branch targets is defined exactly once.
C32_UniqueLabels ==
    \A i \in DOMAIN cc :
        LET out == cc[i].out
        IN  /\ \A k \in LabelDefs(out) \cup Branches(out) :
                  \E n \in 0..(cc[i].lblcount - 1) : out[k].i = HEX32(n)
            /\ \A j, k \in LabelDefs(out) : out[j].i = out[k].i => j = k
            /\ (Halted(cc[i]) /\ cc[i].errpos = -1) =>
                  \A b \in Branches(out) :
                      Cardinality({ k \in LabelDefs(out) : out[k].i = out[b].i }) = 1

\* a compiled function with a conditional and loops
C32_Witness ==
    /\ cprog.kind = "plain" /\ Halted(cc[1]) /\ cc[1].errpos = -1
    /\ Cardinality(LabelDefs(cc[1].out)) >= 5
    /\ Cardinality(Branches(cc[1].out)) >= 5

\* the lines of the output that are the diagnostic
ErrLines(c) == { k \in 1..Len(c.out) : c.out[k] = Text("ERR") }

\* C8: on the first compile error the compiler writes the diagnostic ERR and
\* terminates: in every state after an error the run has ended, the
\* diagnostic is the last line of the output and occurs once (nothing is
\* emitted after it, and there is no second error), and the input stands
\* where it stood when the error was found (nothing more is read).
C8_FirstErrorFatal ==
    \A i \in DOMAIN cc :
        cc[i].errpos # -1 =>
            /\ Halted(cc[i])
            /\ ErrLines(cc[i]) = {Len(cc[i].out)}
            /\ cc[i].pos = cc[i].errpos

\* an error in the first of two functions: assembly was emitted before it,
\* and a whole function is left unread behind it
C8_Witness ==
    /\ cprog.kind = "plain" /\ cprog.bad
    /\ cc[1].errpos # -1 /\ Len(cc[1].out) > 3
    /\ cc[1].errpos + 10 < Len(cc[1].src)

\* C9: the exit status is 0 when the input ends cleanly and nonzero when the
\* run ends on a compile error reported with ERR.
C9_ExitStatus ==
    \A i \in DOMAIN cc :
        Halted(cc[i]) => (cc[i].exit = 0 <=> cc[i].errpos = -1)

\* C10: in `for (init; cond; update) body` the update clause reaches to the
\* parenthesis that closes the header, parentheses nested in it included, and
\* its code is emitted once, after the code of the body and before the branch
\* back: the loop compiles to the code of `init; while (cond) { body update; }`.
C10_UpdateClause ==
    (cprog.kind = "for" /\ BothHalted)
        => /\ cc[1].errpos = -1 /\ cc[2].errpos = -1
           /\ cc[1].out = cc[2].out

\* C11: if, while and for statements nest to any depth; each statement
\* branches to its own labels, and each for loop replays its own update
\* clause after its own body, whatever is nested inside it: a for loop with
\* statements nested in it compiles to the code of the same statements with
\* every for loop written as init; while (cond) { body update; }.
C11_Nesting ==
    (cprog.kind = "nest" /\ BothHalted)
        => /\ cc[1].errpos = -1 /\ cc[2].errpos = -1
           /\ cc[1].out = cc[2].out

\* C33: the token buffer of the for loop is a bounded queue: it never holds
\* more than 40 records; an update clause of more than 40 tokens is a compile
\* error; a clause of at most 40 tokens is buffered and replayed in order and
\* in full, so that its code stands after the code of the loop's body as in
\* init; while (cond) { body update; }.
C33_BoundedReplay ==
    /\ \A i \in DOMAIN cc : Len(cc[i].tbuf) <= 40
    /\ (cprog.kind = "longfor" /\ cprog.n > 40 /\ Halted(cc[1])) => cc[1].errpos # -1
    /\ (BothHalted /\ (cprog.kind \in {"for", "nest"}
                       \/ (cprog.kind = "longfor" /\ cprog.n <= 40)))
          => /\ cc[1].errpos = -1 /\ cc[2].errpos = -1
             /\ cc[1].out = cc[2].out

\* the lines of an output that store a parameter to the frame
IsParamStore(l) == l.t = "  str w%r, [x29, #-0x%i]"
ParamStores(out) == SelectSeq(out, IsParamStore)

\* C34: a function definition declares at most eight parameters, parameter
\* k being stored to its frame slot from argument register k; a definition
\* with more than eight parameters yields a compile error.
C34_ParamRegisters ==
    (cprog.kind = "params" /\ Halted(cc[1])) =>
        /\ cc[1].errpos # -1 <=> cprog.n > 8
        /\ cprog.n <= 8 =>
              /\ Len(ParamStores(cc[1].out)) = cprog.n
              /\ \A k \in 1..cprog.n :
                    /\ ParamStores(cc[1].out)[k].r = RegChar(k - 1)
                    /\ ParamStores(cc[1].out)[k].i = HEX32(cc[1].symtab[k].off)

\* C35: every slot the compiler assigns lies within the 512 bytes that the
\* prologue reserves: the frame cursor never exceeds 512, and a declaration
\* that would exceed it is a compile error.
C35_FrameBound ==
    \A i \in DOMAIN cc :
        /\ cc[i].locoff <= 512
        /\ \A k \in 1..Len(cc[i].symtab) : cc[i].symtab[k].off <= 512
        /\ (cprog.kind = "frame" /\ cprog.bytes > 512 /\ Halted(cc[i]))
              => cc[i].errpos # -1

\* C37: the replay of an update clause consumes the whole buffered token
\* sequence as one expression: a compilation that ends without error has
\* fetched every buffered token from the buffer, and a clause in which tokens
\* remain after the expression is a compile error.
C37_ReplayConsumesAll ==
    \A i \in DOMAIN cc :
        Halted(cc[i]) =>
            /\ cc[i].errpos = -1 => cc[i].tbidx = Len(cc[i].tbuf)
            /\ cprog.kind = "leftover" => cc[i].errpos # -1

\* a state in which a for loop has buffered and replayed its update clause:
\* the compiler is between two statements of a function body
Replayed(c) ==
    ~Halted(c) /\ c.pc = "body" /\ Len(c.tbuf) > 0 /\ c.tbidx > 0

\* C38: replaying an update clause is transparent to the lexer: when the
\* replay of the buffered clause has finished, Source mode is Stdin, the
\* current token (kind, value, length and the bytes of the identifier buffer)
\* is the one that was current before, and the unget buffer and the position
\* in stdin have not changed.
C38_ReplayTransparent ==
    \A i \in DOMAIN cc :
        Replayed(cc[i]) =>
            LET c == cc[i]
                r == REPLAY_EXPR(c)
            IN  /\ ~Halted(r)
                /\ r.srcmode = 0
                /\ r.tok = c.tok /\ r.tokval = c.tokval /\ r.toklen = c.toklen
                /\ r.idbuf = c.idbuf
                /\ r.ungetn = c.ungetn /\ r.unget0 = c.unget0 /\ r.unget1 = c.unget1
                /\ r.pos = c.pos

\* after a for loop the current token has a text in the identifier buffer
\* that is not the last name of the clause, and a replay emits code
C38_Witness ==
    /\ Replayed(cc[1]) /\ cc[1].toklen > 1
    /\ IdBytes(cc[1]) # cc[1].tbuf[Len(cc[1].tbuf)].name
    /\ Len(REPLAY_EXPR(cc[1]).out) > Len(cc[1].out)

\* The lexer alone: NEXTTOK is applied to every input over the characters
\* that make it push back (a letter, `/`, `*`, `=`, `<`, a blank, a newline)
\* until it reports the end of input or fails.
MaxLexLen == 4
LexAlphabet == {97, 47, 42, 61, 60, 32, 10}
LexSources == UNION { [1..n -> LexAlphabet] : n \in 0..MaxLexLen }

LexInit ==
    /\ cprog \in { [kind |-> "lex", srcs |-> <<s>>] : s \in LexSources }
    /\ cc = <<CCLoaded(cprog.srcs[1])>>
    /\ run = NoRun
    /\ vm = NoVM /\ vmD = NoVM /\ fprog = NoProgram
    /\ LoaderIdle

\* CC reads the first token
LexStart ==
    /\ cprog.kind = "lex" /\ cc[1].pc = "init"
    /\ cc' = <<CC_Begin(cc[1])>>
    /\ UNCHANGED <<run, cprog, lvars, fvars>>

\* the token after a token that is not the end of input
LexNext ==
    /\ cprog.kind = "lex" /\ cc[1].pc = "loop" /\ cc[1].tok # 0
    /\ cc' = <<NEXTTOK(cc[1])>>
    /\ UNCHANGED <<run, cprog, lvars, fvars>>

SpecLex == LexInit /\ [][LexStart \/ LexNext]_vars

\* the characters the lexer pushes back: a slash, a letter, the end of input
UngetChars == {47, 97, -1}

\* C39: the unget buffer never holds more than two characters and never
\* drops one: UNGETC is never called when two are pending, and the characters
\* pushed back are returned by the next reads, the last pushed first, before
\* any new byte is taken from stdin.
C39_UngetBuffer ==
    \A i \in DOMAIN cc :
        LET c == cc[i] IN
        /\ c.ungetn \in 0..2 /\ c.ungetmax <= 2
        /\ c.ungetdrops = 0
        /\ (~Halted(c) /\ c.ungetn = 0) =>
               \A x, y \in UngetChars :
                   LET r1 == GETC(UNGETC(UNGETC(c, x), y))
                       r2 == GETC(r1)
                   IN  /\ r1.ch = y /\ r1.pos = c.pos
                       /\ r2.ch = x /\ r2.pos = c.pos /\ r2.ungetn = 0
        /\ (~Halted(c) /\ c.ungetn = 1) =>
               \A x \in UngetChars :
                   LET r1 == GETC(UNGETC(c, x))
                       r2 == GETC(r1)
                   IN  /\ r1.ch = x /\ r1.pos = c.pos
                       /\ r2.ch = c.unget0 /\ r2.pos = c.pos /\ r2.ungetn = 0

\* an input lexed to its end during which two characters were pushed back
C39_Witness ==
    /\ cprog.kind = "lex" /\ cc[1].pc = "loop" /\ cc[1].tok = 0
    /\ cc[1].ungetmax = 2 /\ cc[1].ungetdrops = 0
    /\ cc[1].pos = Len(cc[1].src) /\ Len(cc[1].src) = MaxLexLen

\* the bytes CC-ALLOC allots to the buffers, and the bytes of a 56-byte
\* record from REC-NAME to its end
FNBUF_SIZE     == 64
CALLBUF_SIZE   == 64
CALLEEBUF_SIZE == 64
IDBUF_SIZE     == 128
REC_NAME_SIZE  == 32

\* C40: for identifiers of any length, reading, saving and declaring the
\* identifier never writes outside the buffer or record it is stored into:
\* the bytes written to IDBUF, FNBUF, CALLBUF and CALLEEBUF fit the buffer,
\* the name bytes of a saved-token or token-buffer record fit its name field,
\* and the length byte and the name of a symbol fit the name field of its
\* symbol-table record.
C40_IdentifiersFit ==
    \A i \in DOMAIN cc :
        LET c == cc[i] IN
        /\ Len(c.idbuf) <= IDBUF_SIZE
        /\ Len(c.fnbuf) <= FNBUF_SIZE
        /\ Len(c.callbuf) <= CALLBUF_SIZE
        /\ Len(c.calleebuf) <= CALLEEBUF_SIZE
        /\ Len(c.savtok.name) <= REC_NAME_SIZE
        /\ \A k \in DOMAIN c.tbuf : Len(c.tbuf[k].name) <= REC_NAME_SIZE
        /\ \A k \in DOMAIN c.symtab : 1 + Len(c.symtab[k].name) <= REC_NAME_SIZE

\* the names the `bl` lines of an output call, in order
IsCallLine(l) == l.t = "  bl _%n"
CalleesOf(out) ==
    LET ls == SelectSeq(out, IsCallLine) IN [k \in 1..Len(ls) |-> ls[k].n]

\* the bytes of the names, as written in the source
NamesOf(ns) == [k \in 1..Len(ns) |-> Lex[ns[k]]]

\* C12: at every call site name(args) the emitted `bl` targets `_` followed
\* by the identifier written at that call site, for any argument
\* expressions, arguments that are calls included.
C12_CallTarget ==
    (cprog.kind = "call" /\ Halted(cc[1]))
        => /\ cc[1].errpos = -1
           /\ CalleesOf(cc[1].out) = NamesOf(cprog.callees)

\* the line of the last `bl` of an output: the call whose arguments contain
\* every other call
LastCall(out) ==
    LET calls == { k \in 1..Len(out) : IsCallLine(out[k]) } IN
    IF calls = {} THEN 0 ELSE CHOOSE k \in calls : \A j \in calls : j <= k

\* C13: for a call with n <= 8 arguments, when its `bl` executes argument k
\* (counted from 0 in source order) is in register k; a call with more than
\* eight arguments is a compile error.
C13_ArgRegisters ==
    cprog.kind = "args" =>
        /\ Halted(cc[1]) => (cc[1].errpos # -1 <=> Len(cprog.vals) > 8)
        /\ (run.at = "code" /\ run.pc = LastCall(cc[1].out))
              => \A k \in 1..Len(cprog.vals) : run.regs[k - 1] = cprog.vals[k]

\* the `bl` of a call with three arguments, one of them a call, is about to
\* execute
C13_Witness ==
    /\ cprog.kind = "args" /\ Len(cprog.vals) = 3 /\ cprog.vals[2] = CallResult
    /\ run.at = "code" /\ run.pc = LastCall(cc[1].out)

\* the frame offset of the last variable reference of an output
LastRef(out) ==
    LET refs == { k \in 1..Len(out) : out[k].t = "  sub x0, x29, #0x%i" } IN
    HexVal(out[CHOOSE k \in refs : \A j \in refs : j <= k].i)

\* C14: within a function a variable reference resolves to the most recently
\* declared symbol of that name, and never to a symbol of another function:
\* the reference is an error when the function declares no such name.
C14_SymbolLookup ==
    (cprog.kind = "sym" /\ Halted(cc[1]))
        => IF cprog.off = 0 THEN cc[1].errpos # -1
           ELSE cc[1].errpos = -1 /\ LastRef(cc[1].out) = cprog.off

-----------------------------------------------------------------------------
(* Claims about the loader at the end of stdin *)

\* the loader is in its read loop: at its head, in a comment, or between the
\* two digits of a pair
Reading == lpc \in {"loop", "skip", "second"}

\* stdin is exhausted and no sentinel was among its bytes
EofNoSentinel == pos = Len(S) /\ 96 \notin Range(S)

\* C15: when stdin reaches its end while the loader is reading and no
\* sentinel has been read (between pairs, after a single unpaired hex digit,
\* or inside a comment), the loader finalizes the region and then enters it:
\* control is transferred, with the bytes stored so far (none is added or
\* dropped on the way, and the whole of them is flushed), and once (having
\* entered the region the loader takes no further step).
C15_EofExecutes ==
    /\ (Reading /\ EofNoSentinel) ~> (lpc = "exec" /\ flushed = Len(buf))
    /\ [][((Reading /\ EofNoSentinel) \/ lpc \in {"final", "sealed", "flushed"})
            => buf' = buf]_vars
    /\ [][lpc # "exec"]_vars

\* the region was entered after stdin ended on an unpaired hex digit: one
\* byte was stored from the pair before it
C15_Witness ==
    /\ lpc = "exec" /\ 96 \notin Range(S)
    /\ Len(S) = 3 /\ \A k \in 1..3 : hex_to_nibble(S[k]) >= 0
    /\ Len(buf) = 1 /\ flushed = 1

-----------------------------------------------------------------------------
(* Claims about the VM at the end of stdin and on errors *)

\* stdin is exhausted: every byte was read and the writer has closed
Exhausted(v) == v.inp = <<>> /\ v.eof

\* C16: end of file on stdin is a termination signal: once stdin is
\* exhausted, the outer interpreter of the VM shuts the process down in
\* finitely many steps; it neither goes on running nor waits for input.
\* The VM is deterministic, so a step that is taken with stdin exhausted and
\* gives back the state it started from is taken for ever: a VM that shuts
\* down in finitely many steps has no such step.
C16_EofShutsDown == (Exhausted(vm) /\ Running(vm)) => VMStep(vm) # vm

\* the primitive whose code the VM is about to branch to, "none" if W does
\* not name the code field of a primitive
PrimAt(v) ==
    IF /\ v.pc = "code"
       /\ FetchKind(v, v.w) = "ok"
       /\ Slot(Fetch(v, v.w)) # 0
       /\ Fetch(v, v.w) = DoOff(Slot(Fetch(v, v.w)))
    THEN Builtins[Slot(Fetch(v, v.w))].prim
    ELSE "none"

\* the number of cells the code of a primitive loads from the parameter stack
Needs(p) ==
    CASE p \in {"DROP", "DUP", ">R", "@", "C@", "EMIT", "LITERAL", "0BRANCH",
                ",", "ALLOT", "EXECUTE"} -> 1
      [] p \in {"SWAP", "OVER", "+", "-", "*", "=", "AND", "OR", "XOR",
                "LSHIFT", "RSHIFT", "!", "C!", "TYPE"} -> 2
      [] OTHER -> 0

\* the primitive about to run takes more cells than the parameter stack holds
Underflows(v) == Depth(v) < Needs(PrimAt(v))

\* the primitive about to run loads from an empty return stack: x21 is at
\* the end of the return stack, where the dictionary begins
RUnderflows(v) == PrimAt(v) \in {"R@", "R>"} /\ v.rsp = DataBase + OFF_DSPACE

\* n is v after a fatal error: the process has exited with a nonzero status
\* and something was written to stderr
Fatal(v, n) == n.pc = "halt" /\ n.exit > 0 /\ n.err # v.err

\* C17: every underflow of the parameter stack or of the return stack is
\* fatal: the step that underflows ends the VM with a nonzero exit status and
\* a diagnostic, and so loads nothing from outside the stack it works on.
\* (Overflows of the stacks and of the dictionary need more words than the
\* sources tried here contain.)
C17_StackErrorsFatal ==
    \A v \in {vm, vmD} :
        (Running(v) /\ (Underflows(v) \/ RUnderflows(v))) => Fatal(v, VMStep(v))

\* quit_loop is about to read a word that is in no dictionary and is no number
UnknownNext(v) ==
    LET r == read_word(v.inp)
    IN  /\ v.pc = "quit"
        /\ r.word # <<>> /\ Len(r.word) <= 64
        /\ find_word(v, r.word) = 0
        /\ ~parse_number(v, r.word).ok

\* C18: a word that is neither found in the dictionary nor a number while
\* STATE is compile is fatal: the VM exits with a nonzero status and a
\* diagnostic (and so compiles and executes nothing further).
C18_UnknownCompileFatal ==
    (UnknownNext(vm) /\ StateOf(vm) # 0) => Fatal(vm, VMStep(vm))

NewBranches(v) ==
    { a \in DOMAIN v.mem :
        a > v.latest /\ a < v.here /\ v.mem[a] \in {Xt("BRANCH"), Xt("0BRANCH")} }

\* C20: a control word used without its matching opener (THEN or ELSE
\* without IF, UNTIL or AGAIN without BEGIN) aborts the VM, and no branch
\* offset is patched or compiled from a value that no matching opener left
\* on the parameter stack: when a source with an unmatched closer has been
\* read, the VM has stopped with a nonzero status, the definition holds no
\* branch, and the cell below its header, whose address was on the stack,
\* is still 0.
C20_UnmatchedAborts ==
    (fprog.kind = "unmatched" /\ Finished(vm)) =>
        /\ vm.pc = "halt" /\ vm.exit > 0
        /\ NewBranches(vm) = {}
        /\ Fetch(vm, vm.latest - 8) = 0

-----------------------------------------------------------------------------
(* Claims about the compiler at the end of its input *)

\* the step of CC that the run c takes next (CCStart, CCFunc, CCStmt,
\* CCFuncEnd or CCEnd)
CCStep(c) ==
    CASE c.pc = "init" -> Call("CC_Begin", c)
      [] c.pc = "loop" /\ c.tok # 0 -> Call("FUNC_Begin", c)
      [] c.pc = "loop" /\ c.tok = 0 -> BYE(c)
      [] c.pc = "body" /\ c.tok # 125 -> Call("FUNC_Stmt", c)
      [] c.pc = "body" /\ c.tok = 125 -> Call("FUNC_End", c)
      [] OTHER -> c

\* C21: if stdin ends while a brace or a parenthesis opened in the source is
\* unmatched (in a function body, a parenthesized expression, an argument
\* list or a for header), the compiler takes it for a parse failure: it
\* writes ERR and terminates, and never loops.  A run on such a source that
\* has ended has ERR as the last line of its output, written once, with the
\* whole input read; a run that has not ended takes a step that either
\* ends it or reads more of the input, so it ends after finitely many.
C21_EofUnmatched ==
    cprog.kind = "trunc" =>
        /\ Halted(cc[1]) =>
              /\ ErrLines(cc[1]) = {Len(cc[1].out)}
              /\ cc[1].errpos = Len(cc[1].src)
        /\ ~Halted(cc[1]) =>
              LET n == CCStep(cc[1])
              IN  Halted(n) \/ n.pos > cc[1].pos

\* the input ended in a for header, in the update clause: the run has ended
\* with ERR after the code of the condition
C21_Witness ==
    /\ cprog.kind = "trunc" /\ cprog.open = "for"
    /\ Halted(cc[1]) /\ Len(cc[1].tbuf) = 40
    /\ cc[1].out[Len(cc[1].out)] = Text("ERR")

-----------------------------------------------------------------------------
(***************************************************************************)
(* A. The hex loader in assembly (stage0/stage0.s).  It runs on the        *)
(* loader's variables: buf is what strb has stored from x19 upwards, so a  *)
(* buf longer than BUFSIZE has bytes beyond the end of the mapping; jit is *)
(* "RWX" once mmap has returned, for the protection that _start asks for;  *)
(* flushed is the number of stored bytes that clear_cache has cleaned and  *)
(* invalidated.                                                            *)
(***************************************************************************)

\* length of the mapping; 0x10000 in the source, scaled down so that an
\* input of a few bytes fills it
BUFSIZE == 2

\* bytes that one `dc cvau` / `ic ivau` covers: one cache line, scaled down
\* with the mapping
CacheLine == 1

\* longest input the assembly loader is run on
AsmInputLen == 6

\* bytes its inputs are made of: '1' 'b' ' ' '#' '\n'
AsmBytes == {49, 98, 32, 35, 10}

\* hex_to_nibble of stage0.s, the low byte of w0: no test that c is a digit
AsmNibble(c) == IF c <= 57 THEN (c - 48) % 256 ELSE (Fold(c) - 87) % 256

AInit ==
    /\ S \in SeqsUpTo(AsmBytes, AsmInputLen)
    /\ pos = 0
    /\ buf = <<>>
    /\ lpc = "start"
    /\ hi = 0
    /\ jit = "none"
    /\ flushed = -1
    /\ status = -1
    /\ vm = NoVM /\ vmD = NoVM /\ fprog = NoProgram
    /\ cc = NoCC /\ run = NoRun /\ cprog = NoProgram

\* _start: mmap(NULL, BUFSIZE, PROT_READ|PROT_WRITE|PROT_EXEC, ...) succeeds
AsmStart ==
    /\ lpc = "start"
    /\ lpc' = "loop"
    /\ jit' = "RWX"
    /\ UNCHANGED <<S, pos, buf, hi, flushed, status>>
    /\ UNCHANGED notLoader

\* mmap fails: exit_error, exit(1)
AsmExitError ==
    /\ lpc = "start"
    /\ lpc' = "exit"
    /\ status' = 1
    /\ UNCHANGED <<S, pos, buf, hi, jit, flushed>>
    /\ UNCHANGED notLoader

\* read_loop up to the first hex_to_nibble: w21 = nibble << 4
AsmReadLoop ==
    /\ lpc = "loop"
    /\ pos' = read_pos
    /\ LET c == read_byte IN
        /\ lpc' = IF c = EOF THEN "execute"
                  ELSE IF IsLoaderWs(c) THEN "loop"
                  ELSE IF c = 59 \/ c = 35 THEN "skip"
                  ELSE "second"
        /\ hi' = IF c # EOF /\ ~IsLoaderWs(c) /\ c # 59 /\ c # 35
                 THEN (AsmNibble(c) * 16) % 256 ELSE hi
    /\ UNCHANGED <<S, buf, jit, flushed, status>>
    /\ UNCHANGED notLoader

\* skip_line: one turn
AsmSkipLine ==
    /\ lpc = "skip"
    /\ pos' = read_pos
    /\ lpc' = IF read_byte = EOF THEN "execute"
              ELSE IF read_byte = 10 THEN "loop" ELSE "skip"
    /\ UNCHANGED <<S, buf, hi, jit, flushed, status>>
    /\ UNCHANGED notLoader

\* the second digit and `strb w21, [x20], #1`; x20 is not compared with the
\* end of the mapping, and a store beyond it that hits mapped memory lands
AsmSecond ==
    /\ lpc = "second"
    /\ pos' = read_pos
    /\ LET c == read_byte
       IN  IF c = EOF THEN
               /\ lpc' = "execute"
               /\ UNCHANGED buf
           ELSE
               /\ buf' = Append(buf, BitOr(hi, AsmNibble(c)))
               /\ lpc' = "loop"
    /\ UNCHANGED <<S, hi, jit, flushed, status>>
    /\ UNCHANGED notLoader

\* the same store when x20 is beyond the mapping and the address is not
\* mapped: the process is killed by SIGSEGV (status 128 + 11)
AsmSecondFault ==
    /\ lpc = "second"
    /\ read_byte # EOF
    /\ Len(buf) >= BUFSIZE
    /\ pos' = read_pos
    /\ lpc' = "killed"
    /\ status' = 139
    /\ UNCHANGED <<S, buf, hi, jit, flushed>>
    /\ UNCHANGED notLoader

\* execute: clear_cache(x19, x20) cleans and invalidates the line at x19,
\* whatever x20 is
AsmClearCache ==
    /\ lpc = "execute"
    /\ flushed' = IF Len(buf) < CacheLine THEN Len(buf) ELSE CacheLine
    /\ lpc' = "flushed"
    /\ UNCHANGED <<S, pos, buf, hi, jit, status>>
    /\ UNCHANGED notLoader

\* br x19
AsmBranch ==
    /\ lpc = "flushed"
    /\ lpc' = "exec"
    /\ UNCHANGED <<S, pos, buf, hi, jit, flushed, status>>
    /\ UNCHANGED notLoader

ANext == AsmStart \/ AsmExitError \/ AsmReadLoop \/ AsmSkipLine \/ AsmSecond
            \/ AsmSecondFault \/ AsmClearCache \/ AsmBranch

SpecLoaderAsm == AInit /\ [][ANext]_vars

(* Claims about the capacity of the region *)

\* the hex pairs of an input, as the specification counts them
NumPairs(s) == Len(Unhex(StripCommentsAndWs(PrefixUntilSentinel(s))))

\* C22: when the input holds more hex pairs than the region has bytes, the
\* loader aborts with a nonzero status and does not execute the region, and
\* at no time is a byte stored at or beyond the end of the region.
C22_OverflowAborts ==
    /\ Len(buf) <= BUFSIZE
    /\ (WellFormed(S) /\ NumPairs(S) > BUFSIZE) =>
          /\ lpc \notin {"execute", "flushed", "exec"}
          /\ lpc \in {"exit", "killed"} => status > 0

(* Claims about dictionary lookup *)

\* C31: Here advances monotonically: no operation of the VM (`,`, ALLOT with
\* any argument, `:`, `;`, compiling a word or a literal) leaves Here lower
\* than it was before.
C31_HereMonotonic ==
    [][(vm # NoVM /\ vm' # NoVM) => vm'.here >= vm.here]_vars

W_WHILE  == <<87, 72, 73, 76, 69>>
W_REPEAT == <<82, 69, 80, 69, 65, 84>>

\* the extensions have been read to their end and nothing else has
Loaded(v) == v # NoVM /\ v.pc = "quit" /\ v.inp = <<>> /\ ~v.eof

\* the word is in the dictionary and its header has the IMMEDIATE flag
IsImmediateWord(v, w) ==
    /\ find_word(v, w) > 0
    /\ (LenByte(v, find_word(v, w)) \div F_IMMED) % 2 = 1

\* C26: once the Forth extensions are loaded the dictionary holds IF, ELSE,
\* THEN, BEGIN, UNTIL, AGAIN, WHILE and REPEAT, each of them IMMEDIATE.
C26_ControlWords ==
    Loaded(vm) =>
        \A w \in {W_IF, W_ELSE, W_THEN, W_BEGIN, W_UNTIL, W_AGAIN,
                  W_WHILE, W_REPEAT} : IsImmediateWord(vm, w)

\* a colon definition is open: `:` has set STATE and `;` has not cleared it
\* (no source text of the runs uses `]`, the one other word that sets STATE)
Defining(v) == v # NoVM /\ Running(v) /\ StateOf(v) = 1

\* C27: between `:` and the matching `;` a lookup of the new word's name
\* never resolves to the entry under construction.
C27_HiddenWhileDefining ==
    Defining(vm) => find_word(vm, NameOf(vm, vm.latest)) # vm.latest

\* toupper of one byte, and of a name
Upper(c) == IF c >= 97 /\ c <= 122 THEN c - 32 ELSE c
UpperName(s) == [k \in 1..Len(s) |-> Upper(s[k])]

\* C23: lookup compares names without regard to letter case, upper-casing
\* both sides byte by byte: DUP, dup and Dup resolve to the same word, and
\* two names match only if they are equal after upper-casing, so names that
\* differ in a byte otherwise than by letter case never match.
C23_CaseFolding ==
    (fprog.kind = "fold" /\ vm.pc = "quit" /\ read_word(vm.inp).word = fprog.word) =>
        LET h == find_word(vm, fprog.word)
        IN  /\ UpperName(fprog.word) = <<68, 85, 80>>
                => h = Lbase + NameOff(BuiltinIdx("DUP"))
            /\ h > 0 => UpperName(NameOf(vm, h)) = UpperName(fprog.word)

\* C29: the JIT region is either Writable or Executable and never both; the
\* loader stores to it only while it is Writable, control enters it only
\* when it is Executable, and once Executable it stays so and is not
\* stored to again.
C29_WriteXorExecute ==
    /\ [](jit \in {"none", "W", "X"})
    /\ [][buf' # buf => jit = "W"]_vars
    /\ [][(lpc # "exec" /\ lpc' = "exec") => jit = "X"]_vars
    /\ [][jit = "X" => (jit' = "X" /\ buf' = buf)]_vars

\* C30: when control enters the region every byte has been stored and the
\* cache maintenance has covered the whole written range, from the start of
\* the region to the last byte stored.
C30_FlushedBeforeExecute ==
    /\ [](lpc = "exec" => flushed = Len(buf))
    /\ [][lpc = "exec" => buf' = buf]_vars

-----------------------------------------------------------------------------
(***************************************************************************)
(* N. parse_number on its own, with registers of CellBits bits, so that    *)
(* the values at which mul / add / neg wrap around are among the inputs.   *)
(***************************************************************************)

\* width of a cell; 64 in the source
CellBits == 6

Wrap(x)   == x % (2 ^ CellBits)
Signed(x) == IF x >= 2 ^ (CellBits - 1) THEN x - 2 ^ CellBits ELSE x
MinCell   == 0 - 2 ^ (CellBits - 1)
MaxCell   == 2 ^ (CellBits - 1) - 1

\* the digit loop of parse_number: x4 = x4 * x7 + x6
RECURSIVE ParseLoop(_, _, _, _)
ParseLoop(word, i, acc, base) ==
    IF i > Len(word) THEN [ok |-> TRUE, val |-> acc]
    ELSE IF DigitOf(word[i]) < 0 \/ DigitOf(word[i]) >= base
         THEN [ok |-> FALSE, val |-> 0]
    ELSE ParseLoop(word, i + 1, Wrap(acc * base + DigitOf(word[i])), base)

\* parse_number that leaves out `neg x4, x4`
ParseWord_NoNeg(word, base) ==
    LET neg == Len(word) > 0 /\ word[1] = 45
        r   == ParseLoop(word, IF neg THEN 2 ELSE 1, 0, base)
    IN  IF Len(word) = 0 \/ (neg /\ Len(word) = 1) THEN [ok |-> FALSE, val |-> 0]
        ELSE IF r.ok THEN [ok |-> TRUE, val |-> Signed(r.val)]
        ELSE r

\* parse_number on the word and the value of BASE: the flag in x1 and the
\* cell it pushes, read as a signed number
ParseWord(word, base) ==
    LET neg == Len(word) > 0 /\ word[1] = 45
        r   == ParseLoop(word, IF neg THEN 2 ELSE 1, 0, base)
    IN  IF Len(word) = 0 \/ (neg /\ Len(word) = 1) THEN [ok |-> FALSE, val |-> 0]
        ELSE IF r.ok
             THEN [ok |-> TRUE, val |-> Signed(IF neg THEN Wrap(0 - r.val) ELSE r.val)]
        ELSE r

\* the canonical rendering of n in base b: `-` for a negative number, then
\* the digits of its magnitude, most significant first, no leading zero;
\* the digits above 9 are upper-case letters, or lower-case ones as `.` of
\* stage 2 writes them
DigitChar(d, upper) == IF d < 10 THEN 48 + d ELSE (IF upper THEN 55 ELSE 87) + d

RECURSIVE Magnitude(_, _, _)
Magnitude(m, b, upper) ==
    IF m < b THEN <<DigitChar(m, upper)>>
    ELSE Append(Magnitude(m \div b, b, upper), DigitChar(m % b, upper))

Canonical(n, b, upper) ==
    IF n < 0 THEN <<45>> \o Magnitude(0 - n, b, upper) ELSE Magnitude(n, b, upper)

NumberInputs ==
    { [kind |-> "number", n |-> n, base |-> b, text |-> Canonical(n, b, u)]
      : n \in MinCell..MaxCell, b \in {2, 10, 16}, u \in BOOLEAN }

NInit ==
    /\ fprog \in NumberInputs
    /\ vm = NoVM /\ vmD = NoVM
    /\ LoaderIdle
    /\ cc = NoCC /\ run = NoRun /\ cprog = NoProgram

\* quit_loop hands the word to parse_number
ParseNumber ==
    /\ fprog.kind = "number" /\ vm = NoVM
    /\ LET r == ParseWord(fprog.text, fprog.base)
       IN  vm' = [pc |-> "parsed", ok |-> r.ok, val |-> r.val]
    /\ UNCHANGED <<vmD, fprog, lvars, cvars>>

SpecParse == NInit /\ [][ParseNumber]_vars

\* C24: for every base b in {2, 10, 16} and every representable integer n,
\* the negative and the two extreme values included, parsing the canonical
\* rendering of n in base b succeeds and yields exactly n.
C24_ParseRoundTrip ==
    (fprog.kind = "number" /\ vm.pc = "parsed") => (vm.ok /\ vm.val = fprog.n)

\* the most negative cell, rendered in base 2, has been parsed: its
\* magnitude is not representable, and negating it gives it back
C24_Witness ==
    /\ fprog.kind = "number" /\ vm.pc = "parsed"
    /\ fprog.n = MinCell /\ fprog.base = 2
    /\ Len(fprog.text) = CellBits + 1
    /\ vm.ok /\ vm.val = MinCell

-----------------------------------------------------------------------------
(***************************************************************************)
(* K. The comparison words of cc.fth on cells of CellBits bits.  A cell is *)
(* given as a signed number; the primitives work on its bit pattern.       *)
(***************************************************************************)

\* the primitives - and RSHIFT
CellSub(a, b)    == Signed(Wrap(a - b))
CellRshift(a, n) == Signed(Wrap(a) \div (2 ^ n))

\* : NEGATE 0 SWAP - ;   : 0= 0 = ;  where = leaves -1 or 0
NEGATE(x) == CellSub(0, x)
ZeroEqu(x) == IF x = 0 THEN 0 - 1 ELSE 0

\* : < - 63 RSHIFT NEGATE ;  63 is the number of the sign bit of a cell
LessThan(a, b) == NEGATE(CellRshift(CellSub(a, b), CellBits - 1))
\* : > SWAP < ;   : <= > 0= ;   : >= < 0= ;
GreaterThan(a, b) == LessThan(b, a)
LessEq(a, b)      == ZeroEqu(GreaterThan(a, b))
GreaterEq(a, b)   == ZeroEqu(LessThan(a, b))

CompareInputs ==
    { [kind |-> "compare", a |-> a, b |-> b, word |-> w]
      : a \in MinCell..MaxCell, b \in MinCell..MaxCell,
        w \in {"<", ">", "<=", ">="} }

KInit ==
    /\ fprog \in CompareInputs
    /\ vm = NoVM /\ vmD = NoVM
    /\ LoaderIdle
    /\ cc = NoCC /\ run = NoRun /\ cprog = NoProgram

\* `a b w` is executed
ApplyCompare ==
    /\ fprog.kind = "compare" /\ vm = NoVM
    /\ vm' = [pc |-> "compared",
              val |-> CASE fprog.word = "<"  -> LessThan(fprog.a, fprog.b)
                        [] fprog.word = ">"  -> GreaterThan(fprog.a, fprog.b)
                        [] fprog.word = "<=" -> LessEq(fprog.a, fprog.b)
                        [] fprog.word = ">=" -> GreaterEq(fprog.a, fprog.b)]
    /\ UNCHANGED <<vmD, fprog, lvars, cvars>>

SpecCompare == KInit /\ [][ApplyCompare]_vars

\* the signed relation that a comparison word stands for
Holds(w, a, b) ==
    CASE w = "<"  -> a < b
      [] w = ">"  -> a > b
      [] w = "<=" -> a <= b
      [] w = ">=" -> a >= b

\* C25: for all cells a and b every comparison word leaves -1 (all ones)
\* when the signed relation holds and 0 otherwise; `a b <` leaves -1 exactly
\* when a is less than b as signed integers.
C25_Comparisons ==
    (fprog.kind = "compare" /\ vm.pc = "compared") =>
        vm.val = (IF Holds(fprog.word, fprog.a, fprog.b) THEN 0 - 1 ELSE 0)

-----------------------------------------------------------------------------
(***************************************************************************)
(* L. The interpreter loop of the C version of stage 1 (stage1/forth.c),   *)
(* on the builtins `:`, `;`, DUP and +.  What a definition compiles is     *)
(* kept as the sequence of the cells laid down at `here`: the name of the  *)
(* builtin whose function pointer the cell holds.                          *)
(***************************************************************************)

STACK_SIZE == 256

W_DUP  == <<68, 85, 80>>
W_PLUS == <<43>>

\* the rows of the table that the runs use: name and immediate flag
builtins ==
    { [name |-> W_COLON, immediate |-> FALSE],
      [name |-> W_SEMI,  immediate |-> TRUE],
      [name |-> W_DUP,   immediate |-> FALSE],
      [name |-> W_PLUS,  immediate |-> FALSE] }

\* find_builtin: the first row whose name equals the word, letter case aside
find_builtin(word) ==
    { b \in builtins : Len(b.name) = Len(word)
                       /\ \A k \in 1..Len(word) : Upper(b.name[k]) = Upper(word[k]) }

\* b->fn(): the function of a builtin; push and pop end the process with
\* status 1 when the stack is full or empty
builtin_fn(name, v) ==
    LET die     == [v EXCEPT !.pc = "exit", !.status = 1]
        push(u, x) == IF u.pc = "exit" THEN u
                      ELSE IF Len(u.stack) >= STACK_SIZE THEN die
                      ELSE [u EXCEPT !.stack = Append(@, x)]
        top(u)  == u.stack[Len(u.stack)]
        drop(u) == [u EXCEPT !.stack = SubSeq(@, 1, Len(@) - 1)]
        r       == read_word(v.inp)
    IN  CASE name = W_DUP ->
               IF Len(v.stack) < 1 THEN die
               ELSE push(push(drop(v), top(v)), top(v))
          [] name = W_PLUS ->
               IF Len(v.stack) < 2 THEN die
               ELSE push(drop(drop(v)), Signed(Wrap(top(drop(v)) + top(v))))
          [] name = W_COLON ->
               IF r.word = <<>> THEN [v EXCEPT !.inp = r.rest]
               ELSE [v EXCEPT !.inp = r.rest,
                              !.entries = Append(@, [name |-> r.word, hidden |-> TRUE]),
                              !.state = 1]
          [] name = W_SEMI ->
               [v EXCEPT !.entries =
                            IF @ = <<>> THEN @
                            ELSE [@ EXCEPT ![Len(@)].hidden = FALSE],
                         !.state = 0]

\* one turn of the loop of interpret(): read a word; a builtin is run or its
\* function pointer compiled; a dictionary word likewise; a number is pushed
\* in either state; anything else is reported
interpret(v) ==
    LET r  == read_word(v.inp)
        v1 == [v EXCEPT !.inp = r.rest]
        b  == find_builtin(r.word)
        n  == ParseWord(r.word, 10)
    IN  IF r.word = <<>> THEN [v1 EXCEPT !.pc = "exit", !.status = 0]
        ELSE IF b # {}
             THEN LET row == CHOOSE x \in b : TRUE
                  IN  IF v1.state = 0 \/ row.immediate
                      THEN builtin_fn(row.name, v1)
                      ELSE [v1 EXCEPT !.cells = Append(@, row.name)]
        ELSE IF \E k \in 1..Len(v1.entries) :
                    ~v1.entries[k].hidden /\ v1.entries[k].name = r.word
             THEN [v1 EXCEPT !.pc = "unmodelled"]
        ELSE IF n.ok THEN [v1 EXCEPT !.stack = Append(@, n.val)]
        ELSE [v1 EXCEPT !.err = @ \o r.word \o <<32, 63, 10>>]

\* what stands between `: T` and `;` in the runs, and before the `:`
CBodyWords == {NumText(7), NumText(2), W_DUP, W_PLUS}

CInterpPrograms ==
    { [kind |-> "cinterp",
       text |-> Spaced(pre) \o W_COLON \o SP \o W_T \o SP \o Spaced(body)
                \o W_SEMI \o NL]
      : pre \in {<<>>, <<NumText(7)>>, <<NumText(7), W_DUP, W_PLUS>>},
        body \in UNION { [1..k -> CBodyWords] : k \in 1..MaxBodyWords } }

CIInit ==
    /\ fprog \in CInterpPrograms
    /\ vm = [pc |-> "interpret", state |-> 0, stack |-> <<>>, cells |-> <<>>,
             entries |-> <<>>, inp |-> fprog.text, status |-> 0 - 1, err |-> <<>>]
    /\ vmD = NoVM
    /\ LoaderIdle
    /\ cc = NoCC /\ run = NoRun /\ cprog = NoProgram

InterpretWord ==
    /\ fprog.kind = "cinterp" /\ vm.pc = "interpret"
    /\ vm' = interpret(vm)
    /\ UNCHANGED <<vmD, fprog, lvars, cvars>>

SpecInterpC == CIInit /\ [][InterpretWord]_vars

\* the word that the next turn of the loop reads
NextWordC == read_word(vm.inp).word

\* C28: in Compile state a non-immediate word is appended to the definition
\* and not executed, an immediate word is executed and not appended, and a
\* numeric literal n is compiled as LIT n, the parameter stack staying as it was.
C28_CompileState ==
    (fprog.kind = "cinterp" /\ vm.pc = "interpret" /\ vm.state = 1
        /\ NextWordC # <<>>) =>
        LET v2 == interpret(vm)
            b  == find_builtin(NextWordC)
        IN  IF b # {} /\ \A x \in b : ~x.immediate
            THEN v2.cells = Append(vm.cells, NextWordC) /\ v2.stack = vm.stack
                 /\ v2.state = 1
            ELSE IF b # {}
            THEN v2.cells = vm.cells /\ v2.state = 0
            ELSE v2.stack = vm.stack
                 /\ \E n \in MinCell..MaxCell :
                        /\ ParseWord(NextWordC, 10) = [ok |-> TRUE, val |-> n]
                        /\ Len(v2.cells) = Len(vm.cells) + 2
                        /\ v2.cells[Len(v2.cells)] = n

=============================================================================
